---------------------------- MODULE ServicesProofs -----------------------------
(****************************************************************************)
(* Theorems about the services that run beside the handlers: SSH tunnels,   *)
(* the OAuth tokens of the LLM gateway, the rotation of the SSH key and     *)
(* terminal sessions, for every number of clients, sockets, requests,       *)
(* agents and rotations and every bound on output and failures.             *)
(****************************************************************************)
EXTENDS Tunnels, Terminal, CodexOAuth, KeyRotation, FiniteSetTheorems, TLAPS

--------------------------------------------------------------------------------
(****************************************************************************)
(* SSH tunnels.                                                             *)
(****************************************************************************)

\* What NoOrphanListener rests on: the reconciler and the handler each close
\* what they took before they take again, so that taking never forgets tunnels
\* whose listeners are still open.
TakenInv ==
  /\ rpc # "close" => taken["recon"] = {}
  /\ hpc # "close" => taken["handler"] = {}

TunnelInv == TunnelTypeOK /\ TakenInv /\ NoOrphanListener

--------------------------------------------------------------------------------
(* Type correctness.                                                         *)

\* The lists of labels the reconciler makes are short lists of labels.
LEMMA Plans ==
  /\ <<>> \in Seq(TunnelLabels) /\ Len(<<>>) <= 3
  /\ \A s \in Seq(TunnelLabels) :
       s # <<>> /\ Len(s) <= 3 => /\ Head(s) \in TunnelLabels
                                  /\ Tail(s) \in Seq(TunnelLabels) /\ Len(Tail(s)) <= 3
  /\ \A a, b, c \in TunnelLabels :
       /\ <<a, b, c>> \in Seq(TunnelLabels) /\ Len(<<a, b, c>>) <= 3
       /\ <<a>> \in Seq(TunnelLabels) /\ Len(<<a>>) = 1
       /\ <<>> \o <<>> \in Seq(TunnelLabels) /\ Len(<<>> \o <<>>) <= 3
       /\ <<a>> \o <<>> \in Seq(TunnelLabels) /\ Len(<<a>> \o <<>>) <= 3
       /\ <<>> \o <<b>> \in Seq(TunnelLabels) /\ Len(<<>> \o <<b>>) <= 3
       /\ <<a>> \o <<b>> \in Seq(TunnelLabels) /\ Len(<<a>> \o <<b>>) <= 3
  OBVIOUS

\* A new control plane has no tunnels.
LEMMA TunnelInitInv == TunnelInit => TunnelInv
<1> SUFFICES ASSUME TunnelInit PROVE TunnelInv
  OBVIOUS
<1> USE TunnelAssumption DEF TunnelInit, ConnInit
<1>a. broken \in BOOLEAN /\ waiting \in BOOLEAN /\ wanted \in BOOLEAN /\ legacy \in BOOLEAN /\ hung \in BOOLEAN
  OBVIOUS
<1>1. TunnelTypeOK
  BY <1>a, Plans DEF TunnelTypeOK
<1>2. TakenInv /\ NoOrphanListener
  BY DEF TakenInv, NoOrphanListener, Closing
<1> QED
  BY <1>1, <1>2 DEF TunnelInv

\* Every step keeps the types.
LEMMA TunnelTypeStep == TunnelTypeOK /\ [TunnelNext]_tunnelVars => TunnelTypeOK'
<1> SUFFICES ASSUME TunnelTypeOK, [TunnelNext]_tunnelVars PROVE TunnelTypeOK'
  OBVIOUS
<1> USE TunnelAssumption DEF TunnelTypeOK, connVars, linkVars, envVars, reconVars, ReconGoto, Fault
<1>1. CASE ReconcileStopped \/ ReconcileRunning \/ ReadTunnels \/ PingConnection \/ CheckStatuses
  <2> USE <1>1 DEF ReconcileStopped, ReconcileRunning, ReadTunnels, PingConnection, CheckStatuses
  <2>1. broken' \in BOOLEAN /\ waiting' \in BOOLEAN /\ wanted' \in BOOLEAN /\ legacy' \in BOOLEAN /\ hung' \in BOOLEAN
    OBVIOUS
  <2>2. CASE ReconcileStopped
    BY <2>1, <2>2, Plans DEF TakeTunnels
  <2>3. CASE ReconcileRunning \/ ReadTunnels
    BY <2>1, <2>3
  <2>4. CASE PingConnection \/ CheckStatuses
    BY <2>1, <2>4
  <2> QED
    BY <2>2, <2>3, <2>4
<1>2. CASE Ensured
  BY <1>2 DEF Ensured, ConnectionMade, FreshClients, UnusedClients, ConnInstall
<1>3. CASE recordFailure \/ Started \/ BackoffElapses
  <2> USE <1>3 DEF recordFailure, Started, BackoffElapses
  <2>1. broken' \in BOOLEAN /\ waiting' \in BOOLEAN /\ wanted' \in BOOLEAN /\ legacy' \in BOOLEAN /\ hung' \in BOOLEAN
    OBVIOUS
  <2> QED
    BY <2>1
<1>4. CASE CreateMissing
  <2>1. todo' \in Seq(TunnelLabels) /\ Len(todo') <= 3
    <3>1. "LLMProxy" \in TunnelLabels /\ "CDP" \in TunnelLabels
      BY DEF TunnelLabels, AgentLabels
    <3>2. CASE "LLMProxy" \in Present
      BY <1>4, <3>1, <3>2, Plans DEF CreateMissing
    <3>3. CASE "LLMProxy" \notin Present
      BY <1>4, <3>1, <3>3, Plans DEF CreateMissing
    <3> QED
      BY <3>2, <3>3
  <2> QED
    BY <1>4, <2>1 DEF CreateMissing
<1>5. CASE Recreate
  <2>1. todo' \in Seq(TunnelLabels) /\ Len(todo') <= 3
    BY <1>5, Plans DEF Recreate, TunnelLabels, AgentLabels
  <2> QED
    BY <1>5, <2>1 DEF Recreate, TakeTunnels
<1>6. CASE ReconcilerCloses \/ CreateFails
  <2>1. todo' \in Seq(TunnelLabels) /\ Len(todo') <= 3
    BY <1>6, Plans DEF ReconcilerCloses, CreateFails
  <2>2. CASE ReconcilerCloses
    BY <2>1, <2>2 DEF ReconcilerCloses, CloseTunnels
  <2>3. CASE CreateFails
    BY <2>1, <2>3 DEF CreateFails
  <2> QED
    BY <1>6, <2>2, <2>3
<1>7. CASE CreateTunnel
  <2>1. [label |-> Head(todo), via |-> client] \in AllTunnels
    BY <1>7, Plans DEF CreateTunnel, AllTunnels
  <2> QED
    BY <1>7, <2>1, Plans DEF CreateTunnel
<1>8. ASSUME NEW t \in AllTunnels, AcceptFails(t) \/ AcceptBreaks(t) \/ RefreshCDP(t) \/ ProbeFails(t)
      PROVE  TunnelTypeOK'
  BY <1>8 DEF AcceptFails, AcceptBreaks, RefreshCDP, ProbeFails
<1>9. CASE HandlerCancels \/ Handler
  BY <1>9 DEF HandlerCancels, Handler, HandlerTakes, HandlerCloses, HandlerStops, TakeTunnels,
       CloseTunnels, OtherKey
<1>10. CASE StartInstance \/ MigrateImage \/ StopAll \/ ReconcilerHangs \/ HangEnds
  <2> USE <1>10 DEF StartInstance, MigrateImage, StopAll, ConnExit, ReconcilerHangs, HangEnds
  <2>1. broken' \in BOOLEAN /\ waiting' \in BOOLEAN /\ wanted' \in BOOLEAN /\ legacy' \in BOOLEAN /\ hung' \in BOOLEAN
    OBVIOUS
  <2>2. CASE StartInstance \/ MigrateImage \/ ReconcilerHangs \/ HangEnds
    BY <2>1, <2>2
  <2>3. CASE StopAll
    BY <2>1, <2>3, Plans
  <2> QED
    BY <2>2, <2>3
<1>11. CASE ConnectionDrops \/ KeepaliveDrops \/ ManualReconnect
  BY <1>11 DEF ConnectionDrops, KeepaliveDrops, ManualReconnect, ConnDie, ConnLeave, OtherKey
<1>12. CASE LoopBegins \/ LoopConnects \/ LoopGivesUp
  BY <1>12 DEF LoopBegins, LoopConnects, LoopGivesUp, ConnectionMade, ConnInstall, FreshClients,
       UnusedClients
<1>13. CASE UNCHANGED tunnelVars
  BY <1>13 DEF tunnelVars
<1> QED
  BY <1>1, <1>2, <1>3, <1>4, <1>5, <1>6, <1>7, <1>8, <1>9, <1>10, <1>11, <1>12, <1>13
     DEF TunnelNext, reconcile

--------------------------------------------------------------------------------
(* No listener leaks.                                                        *)

(* Every step keeps what was taken from the map in one pair of hands.        *)
LEMMA ListenerStep == TunnelInv /\ [TunnelNext]_tunnelVars => (TakenInv /\ NoOrphanListener)'
<1> SUFFICES ASSUME TunnelInv, [TunnelNext]_tunnelVars PROVE (TakenInv /\ NoOrphanListener)'
  OBVIOUS
<1> USE DEF TunnelInv, TakenInv, NoOrphanListener, Closing, ReconGoto
<1>0. taken \in [{"recon", "handler"} -> SUBSET AllTunnels]
  BY DEF TunnelTypeOK
<1>1. CASE ReconcileStopped \/ Recreate
  BY <1>0, <1>1 DEF ReconcileStopped, Recreate, TakeTunnels
<1>2. CASE ReconcileRunning \/ ReadTunnels \/ PingConnection \/ CheckStatuses \/ Ensured
             \/ recordFailure \/ CreateMissing \/ CreateFails \/ Started
  BY <1>2 DEF ReconcileRunning, ReadTunnels, PingConnection, CheckStatuses, Ensured, recordFailure,
       CreateMissing, CreateFails, Started
<1>3. CASE ReconcilerCloses
  BY <1>0, <1>3 DEF ReconcilerCloses, CloseTunnels
<1>4. CASE CreateTunnel
  BY <1>4 DEF CreateTunnel
<1>5. CASE BackoffElapses \/ StartInstance \/ MigrateImage \/ ReconcilerHangs \/ HangEnds
  BY <1>5 DEF BackoffElapses, StartInstance, MigrateImage, ReconcilerHangs, HangEnds, reconVars
<1>6. ASSUME NEW t \in AllTunnels, AcceptFails(t) \/ AcceptBreaks(t) \/ RefreshCDP(t) \/ ProbeFails(t)
      PROVE  (TakenInv /\ NoOrphanListener)'
  BY <1>6 DEF AcceptFails, AcceptBreaks, RefreshCDP, ProbeFails, reconVars
<1>7. CASE HandlerTakes
  BY <1>0, <1>7 DEF HandlerTakes, TakeTunnels, reconVars
<1>8. CASE HandlerCloses
  BY <1>0, <1>8 DEF HandlerCloses, CloseTunnels, reconVars
<1>9. CASE \/ HandlerCancels \/ HandlerStops \/ ConnectionDrops \/ KeepaliveDrops
             \/ ManualReconnect \/ LoopBegins \/ LoopConnects \/ LoopGivesUp
  BY <1>9 DEF HandlerCancels, HandlerStops, ConnectionDrops, KeepaliveDrops, ManualReconnect,
       LoopBegins, LoopConnects, LoopGivesUp, reconVars
<1>10. CASE StopAll
  BY <1>10 DEF StopAll
<1>11. CASE UNCHANGED tunnelVars
  BY <1>11 DEF tunnelVars
<1> QED
  BY <1>1, <1>2, <1>3, <1>4, <1>5, <1>6, <1>7, <1>8, <1>9, <1>10, <1>11
     DEF TunnelNext, reconcile, Handler

(* The invariant of the tunnels holds in every reachable state.              *)
LEMMA TunnelInvariant == TunnelSpec => []TunnelInv
<1>1. TunnelInv /\ [TunnelNext]_tunnelVars => TunnelInv'
  BY TunnelTypeStep, ListenerStep DEF TunnelInv
<1> QED
  BY <1>1, TunnelInitInv, PTL DEF TunnelSpec

\* The types of the tunnel manager's state, and lists of at most three labels.
THEOREM TunnelTypeCorrect == TunnelSpec => []TunnelTypeOK
<1>1. TunnelInv => TunnelTypeOK
  BY DEF TunnelInv
<1> QED
  BY <1>1, TunnelInvariant, PTL

\* An accept loop that runs always belongs to a tunnel in tm.tunnels or to one
\* that StopTunnelsForInstance is closing, however the reconciler, the handlers
\* and the connection manager interleave.
THEOREM NoListenerLeaks == TunnelSpec => []NoOrphanListener
<1>1. TunnelInv => NoOrphanListener
  BY DEF TunnelInv
<1> QED
  BY <1>1, TunnelInvariant, PTL

--------------------------------------------------------------------------------
(****************************************************************************)
(* OAuth tokens of the LLM gateway.                                         *)
(****************************************************************************)

\* Tokens have numbers the server has given out, and a row that is not there
\* has none.
TokenInv ==
  /\ row.there => row.access \in 1..answers /\ row.refresh \in 1..answers
  /\ ~row.there => row.refresh = 0
  /\ \A c \in Edits : edit[c].pc # "idle" =>
       edit[c].seen.there /\ edit[c].seen.access \in 1..answers /\ edit[c].seen.refresh \in 1..answers
  /\ \A r \in GwRequests :
       /\ req[r].pc \in {"refresh", "answered"} => req[r].old \in 1..answers
       /\ req[r].pc = "answered" => req[r].access \in 1..answers /\ req[r].refresh \in 1..answers

\* Who talks to the server holds the mutex.
OAuthMutexInv == \A r \in GwRequests : req[r].pc \in {"refresh", "answered"} => mutex = r

\* A login's tokens, until they are saved, are in nobody else's hands: no
\* refresh in flight can use them up.
LoginInv ==
  \A c \in Edits : edit[c].pc = "linked" =>
    /\ edit[c].seen.refresh \in accepted
    /\ edit[c].seen.access > outdated
    /\ row.refresh # edit[c].seen.refresh
    /\ \A r \in GwRequests :
         /\ req[r].pc \in {"refresh", "answered"} => req[r].old # edit[c].seen.refresh
         /\ req[r].pc = "answered" => req[r].refresh # edit[c].seen.refresh
    /\ \A d \in Edits \ {c} : edit[d].pc # "idle" => edit[d].seen.refresh # edit[c].seen.refresh

\* An answer on its way to the row can be used.
AnswerInv ==
  \A r \in GwRequests : req[r].pc = "answered" =>
    req[r].access > outdated /\ req[r].refresh \in accepted

\* While nobody refreshes a row that is stale, one refresh is owed to it.
RefreshInv ==
  ~spoiled => /\ sent <= expiries + unkept
              /\ row.there /\ ~Fresh(row) /\ Calling = {} => sent + 1 <= expiries + unkept

OAuthInv == OAuthTypeOK /\ TokenInv /\ OAuthMutexInv /\ LoginInv /\ AnswerInv /\ RefreshInv /\ LinkUsable

--------------------------------------------------------------------------------
(* Type correctness.                                                         *)

\* What the early returns of EnsureFreshOAuthToken have in common.
Returns(r) == ServerRefuses(r) \/ RefreshLost(r) \/ StoreFails(r)

\* The requests' steps that touch neither the row nor the mutex nor the server.
Passes(r) == Authorize(r) \/ Forward(r) \/ Respond(r)

\* An early return gives up, and leaves the server alone.
LEMMA ReturnsGiveUp ==
  ASSUME NEW r \in GwRequests, Returns(r), losses \in Nat
  PROVE  /\ Abandon(r) /\ req[r].pc \in {"refresh", "answered"}
         /\ accepted' = accepted /\ answers' = answers /\ losses' \in Nat
  BY DEF Returns, ServerRefuses, RefreshLost, StoreFails, Server

\* What an answer of the server does to the request that waits for it.
LEMMA AnswerEffect ==
  ASSUME OAuthTypeOK, NEW r \in GwRequests, ServerRefreshes(r)
  PROVE  \E new \in {answers + 1, req[r].old} :
           /\ accepted' = (accepted \ {req[r].old}) \cup {new}
           /\ req' = [req EXCEPT ![r] = [pc |-> "answered", old |-> req[r].old,
                                          access |-> answers + 1, refresh |-> new]]
  BY DEF ServerRefreshes

\* A copy of the row with the tokens of one answer is a row.
LEMMA CopyWithTokens ==
  ASSUME NEW w \in ProviderRows, NEW n \in Nat
  PROVE  LET v == [w EXCEPT !.access = n, !.refresh = n]
         IN  v \in ProviderRows /\ v.there = w.there /\ v.access = n /\ v.refresh = n
  BY DEF ProviderRows

\* What a login does to the copy.
LEMMA LoginEffect ==
  ASSUME OAuthTypeOK, NEW c \in Edits, Relink(c)
  PROVE  \E w \in ProviderRows :
           /\ w.there = edit[c].seen.there /\ w.access = answers + 1 /\ w.refresh = answers + 1
           /\ edit' = [edit EXCEPT ![c] = [pc |-> "linked", seen |-> w]]
<1>1. edit[c].seen \in ProviderRows /\ answers + 1 \in Nat
  BY DEF OAuthTypeOK
<1> QED
  BY <1>1, CopyWithTokens DEF Relink

\* At most one request talks to the server.
LEMMA CallingSize ==
  ASSUME OAuthMutexInv
  PROVE  Cardinality(Calling) = IF Calling = {} THEN 0 ELSE 1
<1>1. CASE Calling = {}
  BY <1>1, FS_EmptySet
<1>2. CASE Calling # {}
  <2>1. PICK r : Calling = {r}
    BY <1>2 DEF OAuthMutexInv, Calling
  <2> QED
    BY <1>2, <2>1, FS_Singleton
<1> QED
  BY <1>1, <1>2

\* Every step keeps the types.
LEMMA OAuthTypeStep ==
  OAuthTypeOK /\ TokenInv /\ OAuthMutexInv /\ [OAuthNext]_oauthVars => OAuthTypeOK'
<1> SUFFICES ASSUME OAuthTypeOK, TokenInv, OAuthMutexInv, [OAuthNext]_oauthVars PROVE OAuthTypeOK'
  OBVIOUS
<1> USE OAuthAssumption DEF OAuthTypeOK, ProviderRows, Server, Counters, At, NoRow, NoEdit
<1>1. ASSUME NEW r \in GwRequests, Passes(r)
      PROVE  OAuthTypeOK'
  <2> USE <1>1 DEF Passes, Authorize, Forward, Respond
  <2>1. req' \in [GwRequests ->
       [pc : {"new", "lock", "refresh", "answered", "forward", "upstream", "served", "denied"},
        old : Nat, access : Nat, refresh : Nat]]
    OBVIOUS
  <2>2. UNCHANGED <<row, mutex, edit, Server, outdated, losses, Counters, spoiled>>
    OBVIOUS
  <2> QED
    BY <2>1, <2>2
<1>2. ASSUME NEW r \in GwRequests, EnsureFreshOAuthToken(r)
      PROVE  OAuthTypeOK'
  BY <1>2 DEF EnsureFreshOAuthToken
<1>3. ASSUME NEW r \in GwRequests, ServerRefreshes(r)
      PROVE  OAuthTypeOK'
  <2>1. PICK new \in {answers + 1, req[r].old} :
          /\ accepted' = (accepted \ {req[r].old}) \cup {new}
          /\ req' = [req EXCEPT ![r] = [pc |-> "answered", old |-> req[r].old,
                                         access |-> answers + 1, refresh |-> new]]
    BY <1>3, AnswerEffect
  <2>2. new \in Nat /\ new \in 1..(answers + 1)
    BY <1>3 DEF ServerRefreshes, TokenInv
  <2>3. answers' = answers + 1 /\ UNCHANGED <<row, mutex, edit, outdated, losses, Counters, spoiled>>
    BY <1>3 DEF ServerRefreshes
  <2>4. accepted' \subseteq 1..answers' /\ answers' \in Nat /\ outdated' <= answers'
    <3>1. \A t \in accepted' : t \in accepted \/ t = new
      BY <2>1
    <3>2. answers' = answers + 1
      BY <2>3
    <3>3. \A t \in accepted : t \in 1..(answers + 1)
      OBVIOUS
    <3>4. outdated' <= answers' /\ answers' \in Nat
      BY <2>3
    <3>5. accepted' \subseteq 1..answers'
      BY <3>1, <3>2, <3>3, <2>2
    <3> QED
      BY <3>4, <3>5
  <2>5. req' \in [GwRequests ->
       [pc : {"new", "lock", "refresh", "answered", "forward", "upstream", "served", "denied"},
        old : Nat, access : Nat, refresh : Nat]]
    BY <2>1, <2>2
  <2> QED
    BY <2>3, <2>4, <2>5
<1>4. ASSUME NEW r \in GwRequests, Returns(r)
      PROVE  OAuthTypeOK'
  <2>1. Abandon(r) /\ UNCHANGED Server /\ losses' \in Nat
    BY <1>4, ReturnsGiveUp
  <2>2. spoiled' \in BOOLEAN
    BY <2>1 DEF Abandon
  <2> QED
    BY <2>1, <2>2 DEF Abandon
<1>5. ASSUME NEW r \in GwRequests, StoreTokens(r)
      PROVE  OAuthTypeOK'
  BY <1>5 DEF StoreTokens
<1>6. ASSUME NEW c \in Edits, ReadRow(c) \/ ChangeType(c) \/ Relink(c) \/ EditFails(c)
      PROVE  OAuthTypeOK'
  <2>1. CASE ReadRow(c)
    BY <2>1 DEF ReadRow
  <2>2. CASE ChangeType(c)
    <3> DEFINE now == [edit[c].seen EXCEPT !.oauth = ~@]
    <3>1. now \in ProviderRows
      OBVIOUS
    <3>2. edit' = [edit EXCEPT ![c].seen = now]
      BY <2>2 DEF ChangeType
    <3>3. UNCHANGED <<row, mutex, req, Server, outdated, losses, Counters, spoiled>>
      BY <2>2 DEF ChangeType
    <3> HIDE DEF now
    <3> QED
      BY <3>1, <3>2, <3>3
  <2>3. CASE Relink(c)
    <3>1. answers' = answers + 1 /\ accepted' = accepted \cup {answers + 1}
      BY <2>3 DEF Relink, NewGrant
    <3>2. accepted' \subseteq 1..answers' /\ answers' \in Nat /\ outdated <= answers'
      BY <3>1
    <3>3. edit' \in [Edits -> [pc : {"idle", "read", "linked"}, seen : ProviderRows]]
      <4>1. PICK w \in ProviderRows : edit' = [edit EXCEPT ![c] = [pc |-> "linked", seen |-> w]]
        BY <2>3, LoginEffect
      <4> QED
        BY <4>1
    <3>4. UNCHANGED <<row, mutex, req, outdated, losses, Counters, spoiled>>
      BY <2>3 DEF Relink
    <3> QED
      BY <3>2, <3>3, <3>4
  <2>4. CASE EditFails(c)
    BY <2>4 DEF EditFails
  <2> QED
    BY <1>6, <2>1, <2>2, <2>3, <2>4
<1>7. ASSUME NEW c \in Edits, SaveRow(c)
      PROVE  OAuthTypeOK'
  <2>1. spoiled' \in BOOLEAN
    BY <1>7 DEF SaveRow
  <2> QED
    BY <1>7, <2>1 DEF SaveRow
<1>8. CASE DeleteRow \/ Expire
  <2>1. CASE DeleteRow
    BY <2>1 DEF DeleteRow
  <2>2. CASE Expire
    BY <2>2 DEF Expire
  <2> QED
    BY <1>8, <2>1, <2>2
<1>9. CASE Crash
  <2>1. spoiled' \in BOOLEAN
    BY <1>9 DEF Crash
  <2> QED
    BY <1>9, <2>1, CallingSize DEF Crash
<1>10. CASE UNCHANGED oauthVars
  BY <1>10 DEF oauthVars
<1> QED
  BY <1>1, <1>2, <1>3, <1>4, <1>5, <1>6, <1>7, <1>8, <1>9, <1>10
     DEF OAuthNext, RequestStep, Returns, Passes

--------------------------------------------------------------------------------
(* The tokens.                                                               *)

\* Tokens come from the server, and copies of the row from the row.
LEMMA TokenStep == OAuthInv /\ [OAuthNext]_oauthVars => TokenInv'
<1> SUFFICES ASSUME OAuthInv, [OAuthNext]_oauthVars PROVE TokenInv'
  OBVIOUS
<1> USE OAuthAssumption DEF OAuthInv, TokenInv, Server
<1>0. OAuthTypeOK /\ OAuthTypeOK'
  BY OAuthTypeStep
<1>1. ASSUME NEW r \in GwRequests, Passes(r)
      PROVE  TokenInv'
  BY <1>0, <1>1 DEF OAuthTypeOK, Passes, Authorize, Forward, Respond
<1>2. ASSUME NEW r \in GwRequests, EnsureFreshOAuthToken(r)
      PROVE  TokenInv'
  BY <1>0, <1>2 DEF OAuthTypeOK, EnsureFreshOAuthToken, At
<1>3. ASSUME NEW r \in GwRequests, ServerRefreshes(r)
      PROVE  TokenInv'
  BY <1>0, <1>3, AnswerEffect DEF OAuthTypeOK, ServerRefreshes
<1>4. ASSUME NEW r \in GwRequests, Returns(r)
      PROVE  TokenInv'
  BY <1>0, <1>4, ReturnsGiveUp DEF OAuthTypeOK, Abandon, At
<1>5. ASSUME NEW r \in GwRequests, StoreTokens(r)
      PROVE  TokenInv'
  BY <1>0, <1>5 DEF OAuthTypeOK, StoreTokens, ProviderRows, At
<1>6. ASSUME NEW c \in Edits, ReadRow(c) \/ EditFails(c)
      PROVE  TokenInv'
  BY <1>0, <1>6 DEF OAuthTypeOK, ReadRow, EditFails, NoEdit
<1>7. ASSUME NEW c \in Edits, ChangeType(c)
      PROVE  TokenInv'
  BY <1>0, <1>7 DEF OAuthTypeOK, ChangeType, ProviderRows
<1>8. ASSUME NEW c \in Edits, Relink(c)
      PROVE  TokenInv'
  <2>1. PICK w \in ProviderRows :
          /\ w.there = edit[c].seen.there /\ w.access = answers + 1 /\ w.refresh = answers + 1
          /\ edit' = [edit EXCEPT ![c] = [pc |-> "linked", seen |-> w]]
    BY <1>0, <1>8, LoginEffect
  <2>2. /\ answers' = answers + 1 /\ accepted' = accepted \cup {answers + 1}
        /\ row' = row /\ req' = req /\ outdated' = outdated /\ edit[c].pc = "read"
    BY <1>8 DEF Relink, NewGrant
  <2>3. /\ edit'[c].pc = "linked" /\ edit'[c].seen = w
        /\ \A d \in Edits \ {c} : edit'[d] = edit[d]
    BY <1>0, <2>1 DEF OAuthTypeOK
  <2> QED
    BY <1>0, <2>1, <2>2, <2>3 DEF OAuthTypeOK
<1>9. ASSUME NEW c \in Edits, SaveRow(c)
      PROVE  TokenInv'
  BY <1>0, <1>9 DEF OAuthTypeOK, SaveRow, NoEdit, Tokens
<1>10. CASE DeleteRow
  BY <1>0, <1>10 DEF OAuthTypeOK, DeleteRow, NoRow
<1>11. CASE Expire
  BY <1>0, <1>11 DEF OAuthTypeOK, Expire
<1>12. CASE Crash
  BY <1>0, <1>12, CallingSize DEF OAuthTypeOK, Crash, At, NoEdit
<1>13. CASE UNCHANGED oauthVars
  BY <1>13 DEF oauthVars
<1> QED
  BY <1>1, <1>2, <1>3, <1>4, <1>5, <1>6, <1>7, <1>8, <1>9, <1>10, <1>11, <1>12, <1>13
     DEF OAuthNext, RequestStep, Returns, Passes

\* A request leaves the mutex when it is done with the server.
LEMMA OAuthMutexStep == OAuthInv /\ [OAuthNext]_oauthVars => OAuthMutexInv'
<1> SUFFICES ASSUME OAuthInv, [OAuthNext]_oauthVars PROVE OAuthMutexInv'
  OBVIOUS
<1> USE OAuthAssumption DEF OAuthInv, OAuthMutexInv
<1>0. OAuthTypeOK /\ OAuthTypeOK'
  BY OAuthTypeStep
<1>1. ASSUME NEW r \in GwRequests, Passes(r)
      PROVE  OAuthMutexInv'
  BY <1>0, <1>1 DEF OAuthTypeOK, Passes, Authorize, Forward, Respond
<1>2. ASSUME NEW r \in GwRequests, EnsureFreshOAuthToken(r)
      PROVE  OAuthMutexInv'
  BY <1>0, <1>2 DEF OAuthTypeOK, EnsureFreshOAuthToken, At
<1>3. ASSUME NEW r \in GwRequests, ServerRefreshes(r)
      PROVE  OAuthMutexInv'
  BY <1>0, <1>3, AnswerEffect DEF OAuthTypeOK, ServerRefreshes
<1>4. ASSUME NEW r \in GwRequests, Returns(r)
      PROVE  OAuthMutexInv'
  BY <1>0, <1>4, ReturnsGiveUp DEF OAuthTypeOK, Abandon, At
<1>5. ASSUME NEW r \in GwRequests, StoreTokens(r)
      PROVE  OAuthMutexInv'
  BY <1>0, <1>5 DEF OAuthTypeOK, StoreTokens, ProviderRows, At
<1>6. ASSUME NEW c \in Edits, ReadRow(c) \/ EditFails(c)
      PROVE  OAuthMutexInv'
  BY <1>0, <1>6 DEF OAuthTypeOK, ReadRow, EditFails, NoEdit
<1>7. ASSUME NEW c \in Edits, ChangeType(c)
      PROVE  OAuthMutexInv'
  BY <1>0, <1>7 DEF OAuthTypeOK, ChangeType, ProviderRows
<1>8. ASSUME NEW c \in Edits, Relink(c)
      PROVE  OAuthMutexInv'
  BY <1>0, <1>8, LoginEffect DEF OAuthTypeOK, Relink, NewGrant
<1>9. ASSUME NEW c \in Edits, SaveRow(c)
      PROVE  OAuthMutexInv'
  BY <1>0, <1>9 DEF OAuthTypeOK, SaveRow, NoEdit, Tokens
<1>10. CASE DeleteRow
  BY <1>0, <1>10 DEF OAuthTypeOK, DeleteRow, NoRow
<1>11. CASE Expire
  BY <1>0, <1>11 DEF OAuthTypeOK, Expire
<1>12. CASE Crash
  BY <1>0, <1>12, CallingSize DEF OAuthTypeOK, Crash, At, NoEdit
<1>13. CASE UNCHANGED oauthVars
  BY <1>13 DEF oauthVars
<1> QED
  BY <1>1, <1>2, <1>3, <1>4, <1>5, <1>6, <1>7, <1>8, <1>9, <1>10, <1>11, <1>12, <1>13
     DEF OAuthNext, RequestStep, Returns, Passes

\* No refresh replaces the token of a login that is not saved yet.
LEMMA LoginStep == OAuthInv /\ [OAuthNext]_oauthVars => LoginInv'
<1> SUFFICES ASSUME OAuthInv, [OAuthNext]_oauthVars PROVE LoginInv'
  OBVIOUS
<1> USE OAuthAssumption DEF OAuthInv, LoginInv, TokenInv, Server
<1>0. OAuthTypeOK /\ OAuthTypeOK'
  BY OAuthTypeStep
<1>1. ASSUME NEW r \in GwRequests, Passes(r)
      PROVE  LoginInv'
  BY <1>0, <1>1 DEF OAuthTypeOK, Passes, Authorize, Forward, Respond
<1>2. ASSUME NEW r \in GwRequests, EnsureFreshOAuthToken(r)
      PROVE  LoginInv'
  BY <1>0, <1>2 DEF OAuthTypeOK, EnsureFreshOAuthToken, At
<1>3. ASSUME NEW r \in GwRequests, ServerRefreshes(r)
      PROVE  LoginInv'
  BY <1>0, <1>3, AnswerEffect DEF OAuthTypeOK, ServerRefreshes
<1>4. ASSUME NEW r \in GwRequests, Returns(r)
      PROVE  LoginInv'
  <2>1. /\ Abandon(r) /\ req[r].pc \in {"refresh", "answered"}
        /\ accepted' = accepted /\ answers' = answers
    BY <1>0, <1>4, ReturnsGiveUp DEF OAuthTypeOK
  <2>2. /\ req'[r].pc = "denied" /\ \A q \in GwRequests \ {r} : req'[q] = req[q]
        /\ row' = row /\ edit' = edit /\ outdated' = outdated
        /\ sent' = sent /\ expiries' = expiries /\ unkept' = unkept + 1
    BY <1>0, <2>1 DEF OAuthTypeOK, Abandon, At
  <2> QED
    BY <2>1, <2>2
<1>5. ASSUME NEW r \in GwRequests, StoreTokens(r)
      PROVE  LoginInv'
  BY <1>0, <1>5 DEF OAuthTypeOK, StoreTokens, ProviderRows, At
<1>6. ASSUME NEW c \in Edits, ReadRow(c) \/ EditFails(c)
      PROVE  LoginInv'
  <2>1. CASE ReadRow(c)
    <3>1. /\ edit'[c].pc = "read" /\ edit'[c].seen = row
          /\ \A d \in Edits \ {c} : edit'[d] = edit[d]
      BY <1>0, <2>1 DEF OAuthTypeOK, ReadRow
    <3> QED
      BY <2>1, <3>1 DEF ReadRow
  <2>2. CASE EditFails(c)
    <3>1. edit'[c].pc = "idle" /\ \A d \in Edits \ {c} : edit'[d] = edit[d]
      BY <1>0, <2>2 DEF OAuthTypeOK, EditFails, NoEdit
    <3> QED
      BY <2>2, <3>1 DEF EditFails
  <2> QED
    BY <1>6, <2>1, <2>2
<1>7. ASSUME NEW c \in Edits, ChangeType(c)
      PROVE  LoginInv'
  BY <1>0, <1>7 DEF OAuthTypeOK, ChangeType, ProviderRows
<1>8. ASSUME NEW c \in Edits, Relink(c)
      PROVE  LoginInv'
  <2>1. PICK w \in ProviderRows :
          /\ w.there = edit[c].seen.there /\ w.access = answers + 1 /\ w.refresh = answers + 1
          /\ edit' = [edit EXCEPT ![c] = [pc |-> "linked", seen |-> w]]
    BY <1>0, <1>8, LoginEffect
  <2>2. /\ answers' = answers + 1 /\ accepted' = accepted \cup {answers + 1}
        /\ row' = row /\ req' = req /\ outdated' = outdated /\ edit[c].pc = "read"
    BY <1>8 DEF Relink, NewGrant
  <2>3. /\ edit'[c].pc = "linked" /\ edit'[c].seen = w
        /\ \A d \in Edits \ {c} : edit'[d] = edit[d]
    BY <1>0, <2>1 DEF OAuthTypeOK
  <2>4. outdated <= answers /\ answers \in Nat /\ outdated \in Nat
    BY <1>0 DEF OAuthTypeOK
  <2> QED
    BY <2>1, <2>2, <2>3, <2>4
<1>9. ASSUME NEW c \in Edits, SaveRow(c)
      PROVE  LoginInv'
  BY <1>0, <1>9 DEF OAuthTypeOK, SaveRow, NoEdit, Tokens
<1>10. CASE DeleteRow
  BY <1>0, <1>10 DEF OAuthTypeOK, DeleteRow, NoRow
<1>11. CASE Expire
  BY <1>0, <1>11 DEF OAuthTypeOK, Expire
<1>12. CASE Crash
  BY <1>0, <1>12, CallingSize DEF OAuthTypeOK, Crash, At, NoEdit
<1>13. CASE UNCHANGED oauthVars
  BY <1>13 DEF oauthVars
<1> QED
  BY <1>1, <1>2, <1>3, <1>4, <1>5, <1>6, <1>7, <1>8, <1>9, <1>10, <1>11, <1>12, <1>13
     DEF OAuthNext, RequestStep, Returns, Passes

\* Nothing uses up an answer before it is stored.
LEMMA AnswerStep == OAuthInv /\ [OAuthNext]_oauthVars => AnswerInv'
<1> SUFFICES ASSUME OAuthInv, [OAuthNext]_oauthVars PROVE AnswerInv'
  OBVIOUS
<1> USE OAuthAssumption DEF OAuthInv, AnswerInv, TokenInv, OAuthMutexInv, Server
<1>0. OAuthTypeOK /\ OAuthTypeOK'
  BY OAuthTypeStep
<1>1. ASSUME NEW r \in GwRequests, Passes(r)
      PROVE  AnswerInv'
  BY <1>0, <1>1 DEF OAuthTypeOK, Passes, Authorize, Forward, Respond
<1>2. ASSUME NEW r \in GwRequests, EnsureFreshOAuthToken(r)
      PROVE  AnswerInv'
  BY <1>0, <1>2 DEF OAuthTypeOK, EnsureFreshOAuthToken, At
<1>3. ASSUME NEW r \in GwRequests, ServerRefreshes(r)
      PROVE  AnswerInv'
  BY <1>0, <1>3, AnswerEffect DEF OAuthTypeOK, ServerRefreshes
<1>4. ASSUME NEW r \in GwRequests, Returns(r)
      PROVE  AnswerInv'
  BY <1>0, <1>4, ReturnsGiveUp DEF OAuthTypeOK, Abandon, At
<1>5. ASSUME NEW r \in GwRequests, StoreTokens(r)
      PROVE  AnswerInv'
  BY <1>0, <1>5 DEF OAuthTypeOK, StoreTokens, ProviderRows, At
<1>6. ASSUME NEW c \in Edits, ReadRow(c) \/ EditFails(c)
      PROVE  AnswerInv'
  BY <1>0, <1>6 DEF OAuthTypeOK, ReadRow, EditFails, NoEdit
<1>7. ASSUME NEW c \in Edits, ChangeType(c)
      PROVE  AnswerInv'
  BY <1>0, <1>7 DEF OAuthTypeOK, ChangeType, ProviderRows
<1>8. ASSUME NEW c \in Edits, Relink(c)
      PROVE  AnswerInv'
  BY <1>0, <1>8, LoginEffect DEF OAuthTypeOK, Relink, NewGrant
<1>9. ASSUME NEW c \in Edits, SaveRow(c)
      PROVE  AnswerInv'
  BY <1>0, <1>9 DEF OAuthTypeOK, SaveRow, NoEdit, Tokens
<1>10. CASE DeleteRow
  BY <1>0, <1>10 DEF OAuthTypeOK, DeleteRow, NoRow
<1>11. CASE Expire
  BY <1>0, <1>11 DEF OAuthTypeOK, Expire
<1>12. CASE Crash
  BY <1>0, <1>12, CallingSize DEF OAuthTypeOK, Crash, At, NoEdit
<1>13. CASE UNCHANGED oauthVars
  BY <1>13 DEF oauthVars
<1> QED
  BY <1>1, <1>2, <1>3, <1>4, <1>5, <1>6, <1>7, <1>8, <1>9, <1>10, <1>11, <1>12, <1>13
     DEF OAuthNext, RequestStep, Returns, Passes

\* The row gets tokens that work, unless it is spoiled.
LEMMA LinkStep == OAuthInv /\ [OAuthNext]_oauthVars => LinkUsable'
<1> SUFFICES ASSUME OAuthInv, [OAuthNext]_oauthVars PROVE LinkUsable'
  OBVIOUS
<1> USE OAuthAssumption DEF OAuthInv, LinkUsable, LoginInv, AnswerInv, TokenInv, OAuthMutexInv, Server
<1>0. OAuthTypeOK /\ OAuthTypeOK'
  BY OAuthTypeStep
<1>1. ASSUME NEW r \in GwRequests, Passes(r)
      PROVE  LinkUsable'
  BY <1>0, <1>1 DEF OAuthTypeOK, Passes, Authorize, Forward, Respond
<1>2. ASSUME NEW r \in GwRequests, EnsureFreshOAuthToken(r)
      PROVE  LinkUsable'
  BY <1>0, <1>2 DEF OAuthTypeOK, EnsureFreshOAuthToken, At
<1>3. ASSUME NEW r \in GwRequests, ServerRefreshes(r)
      PROVE  LinkUsable'
  BY <1>0, <1>3, AnswerEffect DEF OAuthTypeOK, ServerRefreshes
<1>4. ASSUME NEW r \in GwRequests, Returns(r)
      PROVE  LinkUsable'
  BY <1>0, <1>4, ReturnsGiveUp DEF OAuthTypeOK, Abandon, At
<1>5. ASSUME NEW r \in GwRequests, StoreTokens(r)
      PROVE  LinkUsable'
  BY <1>0, <1>5 DEF OAuthTypeOK, StoreTokens, ProviderRows, At
<1>6. ASSUME NEW c \in Edits, ReadRow(c) \/ EditFails(c)
      PROVE  LinkUsable'
  BY <1>0, <1>6 DEF OAuthTypeOK, ReadRow, EditFails, NoEdit
<1>7. ASSUME NEW c \in Edits, ChangeType(c)
      PROVE  LinkUsable'
  BY <1>0, <1>7 DEF OAuthTypeOK, ChangeType, ProviderRows
<1>8. ASSUME NEW c \in Edits, Relink(c)
      PROVE  LinkUsable'
  BY <1>0, <1>8, LoginEffect DEF OAuthTypeOK, Relink, NewGrant
<1>9. ASSUME NEW c \in Edits, SaveRow(c)
      PROVE  LinkUsable'
  <2>1. /\ row' = edit[c].seen /\ edit[c].pc \in {"read", "linked"}
        /\ req' = req /\ accepted' = accepted /\ outdated' = outdated
        /\ sent' = sent /\ unkept' = unkept /\ expiries' = expiries
    BY <1>9 DEF SaveRow, Server, Counters
  <2>2. ~spoiled' => /\ ~spoiled
                     /\ edit[c].pc = "read" => row.access = row'.access /\ row.refresh = row'.refresh
    BY <1>9 DEF SaveRow, Tokens
  <2>3. edit[c].seen.there /\ edit[c].seen.refresh \in 1..answers
    BY <2>1
  <2>4. CASE edit[c].pc = "read"
    <3>1. ~spoiled' => row.there
      BY <1>0, <2>1, <2>2, <2>3, <2>4 DEF OAuthTypeOK
    <3> QED
      BY <2>1, <2>2, <2>4, <3>1
  <2>5. CASE edit[c].pc = "linked"
    BY <1>0, <2>1, <2>2, <2>5 DEF OAuthTypeOK
  <2> QED
    BY <2>1, <2>4, <2>5
<1>10. CASE DeleteRow
  BY <1>0, <1>10 DEF OAuthTypeOK, DeleteRow, NoRow
<1>11. CASE Expire
  BY <1>0, <1>11 DEF OAuthTypeOK, Expire
<1>12. CASE Crash
  <2>1. row' = row /\ accepted' = accepted
    BY <1>12 DEF Crash
  <2>2. ~spoiled' => ~spoiled /\ \A r \in GwRequests : req[r].pc # "answered"
    BY <1>12 DEF Crash, Calling
  <2> QED
    BY <2>1, <2>2
<1>13. CASE UNCHANGED oauthVars
  BY <1>13 DEF oauthVars
<1> QED
  BY <1>1, <1>2, <1>3, <1>4, <1>5, <1>6, <1>7, <1>8, <1>9, <1>10, <1>11, <1>12, <1>13
     DEF OAuthNext, RequestStep, Returns, Passes

\* A refresh is sent when one is owed.
LEMMA RefreshStep == OAuthInv /\ [OAuthNext]_oauthVars => RefreshInv'
<1> SUFFICES ASSUME OAuthInv, [OAuthNext]_oauthVars PROVE RefreshInv'
  OBVIOUS
<1> USE OAuthAssumption DEF OAuthInv, RefreshInv, LoginInv, AnswerInv, TokenInv, OAuthMutexInv, Fresh, Calling, Counters
<1>0. OAuthTypeOK /\ OAuthTypeOK'
  BY OAuthTypeStep
<1>1. ASSUME NEW r \in GwRequests, Passes(r)
      PROVE  RefreshInv'
  BY <1>0, <1>1 DEF OAuthTypeOK, Passes, Authorize, Forward, Respond
<1>2. ASSUME NEW r \in GwRequests, EnsureFreshOAuthToken(r)
      PROVE  RefreshInv'
  BY <1>0, <1>2 DEF OAuthTypeOK, EnsureFreshOAuthToken, At
<1>3. ASSUME NEW r \in GwRequests, ServerRefreshes(r)
      PROVE  RefreshInv'
  BY <1>0, <1>3, AnswerEffect DEF OAuthTypeOK, ServerRefreshes
<1>4. ASSUME NEW r \in GwRequests, Returns(r)
      PROVE  RefreshInv'
  <2>1. /\ Abandon(r) /\ req[r].pc \in {"refresh", "answered"}
        /\ accepted' = accepted /\ answers' = answers
    BY <1>0, <1>4, ReturnsGiveUp DEF OAuthTypeOK
  <2>2. /\ req'[r].pc = "denied" /\ \A q \in GwRequests \ {r} : req'[q] = req[q]
        /\ row' = row /\ edit' = edit /\ outdated' = outdated
        /\ sent' = sent /\ expiries' = expiries /\ unkept' = unkept + 1
    BY <1>0, <2>1 DEF OAuthTypeOK, Abandon, At
  <2>3. ~spoiled' => ~spoiled
    BY <2>1 DEF Abandon
  <2> QED
    BY <1>0, <2>2, <2>3 DEF OAuthTypeOK
<1>5. ASSUME NEW r \in GwRequests, StoreTokens(r)
      PROVE  RefreshInv'
  BY <1>0, <1>5 DEF OAuthTypeOK, StoreTokens, ProviderRows, At
<1>6. ASSUME NEW c \in Edits, ReadRow(c) \/ EditFails(c)
      PROVE  RefreshInv'
  BY <1>0, <1>6 DEF OAuthTypeOK, ReadRow, EditFails, NoEdit
<1>7. ASSUME NEW c \in Edits, ChangeType(c)
      PROVE  RefreshInv'
  BY <1>0, <1>7 DEF OAuthTypeOK, ChangeType, ProviderRows
<1>8. ASSUME NEW c \in Edits, Relink(c)
      PROVE  RefreshInv'
  BY <1>0, <1>8, LoginEffect DEF OAuthTypeOK, Relink, NewGrant
<1>9. ASSUME NEW c \in Edits, SaveRow(c)
      PROVE  RefreshInv'
  <2>1. /\ row' = edit[c].seen /\ edit[c].pc \in {"read", "linked"}
        /\ req' = req /\ accepted' = accepted /\ outdated' = outdated
        /\ sent' = sent /\ unkept' = unkept /\ expiries' = expiries
    BY <1>9 DEF SaveRow, Server, Counters
  <2>2. ~spoiled' => /\ ~spoiled
                     /\ edit[c].pc = "read" => row.access = row'.access /\ row.refresh = row'.refresh
    BY <1>9 DEF SaveRow, Tokens
  <2>3. edit[c].seen.there /\ edit[c].seen.refresh \in 1..answers
    BY <2>1
  <2>4. CASE edit[c].pc = "read"
    <3>1. ~spoiled' => row.there
      BY <1>0, <2>1, <2>2, <2>3, <2>4 DEF OAuthTypeOK
    <3> QED
      BY <2>1, <2>2, <2>4, <3>1
  <2>5. CASE edit[c].pc = "linked"
    BY <1>0, <2>1, <2>2, <2>5 DEF OAuthTypeOK
  <2> QED
    BY <2>1, <2>4, <2>5
<1>10. CASE DeleteRow
  BY <1>0, <1>10 DEF OAuthTypeOK, DeleteRow, NoRow
<1>11. CASE Expire
  BY <1>0, <1>11 DEF OAuthTypeOK, Expire
<1>12. CASE Crash
  BY <1>0, <1>12, CallingSize DEF OAuthTypeOK, Crash, At, NoEdit
<1>13. CASE UNCHANGED oauthVars
  BY <1>13 DEF oauthVars
<1> QED
  BY <1>1, <1>2, <1>3, <1>4, <1>5, <1>6, <1>7, <1>8, <1>9, <1>10, <1>11, <1>12, <1>13
     DEF OAuthNext, RequestStep, Returns, Passes

--------------------------------------------------------------------------------

\* CreateProvider's row, with the tokens of a login, satisfies the invariant.
LEMMA OAuthInitInv == OAuthInit => OAuthInv
<1> SUFFICES ASSUME OAuthInit PROVE OAuthInv
  OBVIOUS
<1> USE DEF OAuthInit, At, NoEdit, NoRow
<1>1. OAuthTypeOK
  <2>1. row \in ProviderRows /\ NoRow \in ProviderRows
    BY DEF ProviderRows
  <2>2. spoiled \in BOOLEAN
    OBVIOUS
  <2>3. edit \in [Edits -> [pc : {"idle", "read", "linked"}, seen : ProviderRows]]
    BY <2>1
  <2> QED
    BY <2>1, <2>2, <2>3 DEF OAuthTypeOK
<1>2. TokenInv /\ OAuthMutexInv /\ LoginInv /\ AnswerInv /\ LinkUsable
  BY DEF TokenInv, OAuthMutexInv, LoginInv, AnswerInv, LinkUsable
<1>3. RefreshInv
  BY DEF RefreshInv, Fresh
<1> QED
  BY <1>1, <1>2, <1>3 DEF OAuthInv

\* The invariant of the gateway's OAuth tokens.
LEMMA OAuthInvariant == OAuthSpec => []OAuthInv
<1>1. OAuthInv /\ [OAuthNext]_oauthVars => OAuthInv'
  <2> SUFFICES ASSUME OAuthInv, [OAuthNext]_oauthVars PROVE OAuthInv'
    OBVIOUS
  <2>1. OAuthTypeOK'
    BY OAuthTypeStep DEF OAuthInv
  <2> QED
    BY <2>1, TokenStep, OAuthMutexStep, LoginStep, AnswerStep, LinkStep, RefreshStep DEF OAuthInv
<1> QED
  BY <1>1, OAuthInitInv, PTL DEF OAuthSpec

\* The refresh token on the provider's row works, for any number of agents that
\* refresh it and console handlers that save the row at the same time, until an
\* answer is lost or an old copy of the row is saved.
THEOREM LinkStaysUsable == OAuthSpec => []LinkUsable
<1>1. OAuthInv => LinkUsable
  BY DEF OAuthInv
<1> QED
  BY <1>1, OAuthInvariant, PTL

\* However many requests find the access token outdated, EnsureFreshOAuthToken
\* sends one refresh for it.
THEOREM BurstRefreshesOnce == OAuthSpec => []OneRefresh
<1>1. OAuthInv => OneRefresh
  BY DEF OAuthInv, RefreshInv, OneRefresh
<1> QED
  BY <1>1, OAuthInvariant, PTL

--------------------------------------------------------------------------------
(****************************************************************************)
(* Rotation of the SSH key.                                                 *)
(****************************************************************************)

RotationType ==
  /\ files \in [key : Keys \cup {NoKey}, pub : Keys \cup {NoKey},
                oldKey : Keys \cup {NoKey}, oldPub : Keys \cup {NoKey}]
  /\ rotation \in [Rotations -> [pc : RotationPhases,
       agent : [Agents -> {"todo", "appended", "failed", "tested", "ok"}]]]

\* Rotations come one at a time.
OneRotation == \A r, q \in Rotations : InProgress(r) /\ InProgress(q) => r = q

\* The files hold the pair that the manager works with.
InSync == files.key = files.pub /\ files.key = manager.signer

\* What a rotation has done to the files so far; the manager still has the old
\* pair, until it is reloaded.
FilesSoFar(r) ==
  /\ rotation[r].pc \in {"append", "backup", "backupPub", "save", "test"} => InSync
  /\ rotation[r].pc \in {"backupPub", "save", "savePub", "restore"} => files.oldKey = manager.signer
  /\ rotation[r].pc \in {"save", "savePub", "restore", "restorePub"} => files.oldPub = manager.signer
  /\ rotation[r].pc = "savePub" => files.key = r /\ files.pub = manager.signer
  /\ rotation[r].pc = "restorePub" => files.key = manager.signer
  /\ rotation[r].pc = "reload" => files.key = r /\ files.pub = r

SafeInv ==
  ~unsafe =>
    /\ manager = [signer |-> manager.signer, public |-> manager.signer]
    /\ OneRotation
    /\ (\A r \in Rotations : ~InProgress(r)) => InSync
    /\ \A r \in Rotations : FilesSoFar(r)

RotationInv == RotationType /\ SafeInv

--------------------------------------------------------------------------------
\* A rotation goes to another phase, is over, or goes on with an agent.
LEMMA RotationMoves ==
  ASSUME RotationType, NEW r \in Rotations
  PROVE  /\ \A k \in RotationPhases : Goes(r, k) =>
              /\ rotation' \in [Rotations -> [pc : RotationPhases, agent : [Agents -> {"todo", "appended", "failed", "tested", "ok"}]]]
              /\ rotation'[r].pc = k /\ \A q \in Rotations \ {r} : rotation'[q] = rotation[q]
         /\ Over(r) =>
              /\ rotation' \in [Rotations -> [pc : RotationPhases, agent : [Agents -> {"todo", "appended", "failed", "tested", "ok"}]]]
              /\ rotation'[r].pc = "over" /\ \A q \in Rotations \ {r} : rotation'[q] = rotation[q]
         /\ \A a \in Agents : \A s \in {"todo", "appended", "failed", "tested", "ok"} : AgentGoes(r, a, s) =>
              /\ rotation' \in [Rotations -> [pc : RotationPhases, agent : [Agents -> {"todo", "appended", "failed", "tested", "ok"}]]]
              /\ \A q \in Rotations : rotation'[q].pc = rotation[q].pc
<1> DEFINE Progress == {"todo", "appended", "failed", "tested", "ok"}
           R == [pc : RotationPhases, agent : [Agents -> Progress]]
<1>1. rotation \in [Rotations -> R]
  BY DEF RotationType
<1>2. ASSUME NEW k \in RotationPhases, Goes(r, k)
      PROVE  rotation' \in [Rotations -> R] /\ rotation'[r].pc = k /\ \A q \in Rotations \ {r} : rotation'[q] = rotation[q]
  BY <1>1, <1>2 DEF Goes
<1>3. ASSUME Over(r)
      PROVE  rotation' \in [Rotations -> R] /\ rotation'[r].pc = "over" /\ \A q \in Rotations \ {r} : rotation'[q] = rotation[q]
  BY <1>1, <1>3 DEF Over, RotationPhases
<1>4. ASSUME NEW a \in Agents, NEW s \in Progress, AgentGoes(r, a, s)
      PROVE  rotation' \in [Rotations -> R] /\ \A q \in Rotations : rotation'[q].pc = rotation[q].pc
  BY <1>1, <1>4 DEF AgentGoes
<1> QED
  BY <1>2, <1>3, <1>4

\* The one rotation in progress goes on.
LEMMA PhaseStep ==
  ASSUME SafeInv, NEW r \in Rotations, InProgress(r),
         \A q \in Rotations \ {r} : rotation'[q].pc = rotation[q].pc,
         ~unsafe' => ~unsafe,
         ~unsafe' => /\ manager' = [signer |-> manager'.signer, public |-> manager'.signer]
                     /\ rotation'[r].pc \in {"idle", "over"} => InSync'
                     /\ FilesSoFar(r)'
  PROVE  SafeInv'
<1> SUFFICES ASSUME ~unsafe'
             PROVE  /\ OneRotation' /\ ((\A q \in Rotations : ~InProgress(q)) => InSync)'
                    /\ \A q \in Rotations : FilesSoFar(q)'
  BY DEF SafeInv
<1>1. \A q \in Rotations \ {r} : ~InProgress(q)
  BY DEF SafeInv, OneRotation
<1>2. \A q \in Rotations \ {r} : rotation'[q].pc \in {"idle", "over"}
  BY <1>1 DEF InProgress
<1>3. OneRotation'
  BY <1>2 DEF OneRotation, InProgress
<1>4. ((\A q \in Rotations : ~InProgress(q)) => InSync)'
  BY DEF InProgress
<1>5. \A q \in Rotations \ {r} : FilesSoFar(q)'
  BY <1>2 DEF FilesSoFar
<1> QED
  BY <1>3, <1>4, <1>5

\* Nothing happens to the files, the manager and the phases.
LEMMA SamePhases ==
  ASSUME SafeInv, files' = files, manager' = manager, unsafe' = unsafe,
         \A q \in Rotations : rotation'[q].pc = rotation[q].pc
  PROVE  SafeInv'
<1>1. \A q \in Rotations : InProgress(q)' <=> InProgress(q)
  BY DEF InProgress
<1>2. InSync' <=> InSync
  BY DEF InSync
<1>3. \A q \in Rotations : FilesSoFar(q) => FilesSoFar(q)'
  BY <1>2 DEF FilesSoFar
<1> QED
  BY <1>1, <1>2, <1>3 DEF SafeInv, OneRotation

\* One step of one rotation.
LEMMA RotationStep ==
  ASSUME RotationInv, NEW r \in Rotations,
         \/ Rotate(r) \/ Appended(r) \/ BackUp(r) \/ BackUpFails(r) \/ SaveKeyPair(r) \/ SaveFails(r)
         \/ restoreFile(r) \/ RestoreFails(r) \/ ReloadKeys(r) \/ FinishRotation(r)
  PROVE  RotationInv'
<1>0. RotationType /\ SafeInv
  BY DEF RotationInv
<1>1. /\ files \in [key : Keys \cup {NoKey}, pub : Keys \cup {NoKey},
                    oldKey : Keys \cup {NoKey}, oldPub : Keys \cup {NoKey}]
      /\ r \in Keys
  BY <1>0, RotationAssumption DEF RotationType, Rotations, Keys
<1>2. ~unsafe => /\ FilesSoFar(r) /\ manager = [signer |-> manager.signer, public |-> manager.signer]
  BY <1>0 DEF SafeInv
<1>3. \A k \in {"append", "backup", "backupPub", "save", "savePub", "restore", "restorePub", "reload", "test", "over"} :
        k \in RotationPhases
  BY DEF RotationPhases
<1>4. CASE Rotate(r)
  <2>1. /\ rotation[r].pc = "idle" /\ Goes(r, "append") /\ files' = files /\ manager' = manager
        /\ ~unsafe' => ~unsafe /\ \A q \in Rotations : ~InProgress(q)
    BY <1>4 DEF Rotate
  <2>2. /\ rotation' \in [Rotations -> [pc : RotationPhases, agent : [Agents -> {"todo", "appended", "failed", "tested", "ok"}]]]
        /\ rotation'[r].pc = "append" /\ \A q \in Rotations \ {r} : rotation'[q] = rotation[q]
    BY <1>0, <1>3, <2>1, RotationMoves
  <2>3. RotationType'
    BY <1>0, <2>1, <2>2 DEF RotationType
  <2>4. SafeInv'
    <3> SUFFICES ASSUME ~unsafe'
                 PROVE  /\ manager' = [signer |-> manager'.signer, public |-> manager'.signer]
                        /\ OneRotation' /\ InSync' /\ \A q \in Rotations : FilesSoFar(q)'
      BY DEF SafeInv
    <3>1. \A q \in Rotations \ {r} : rotation'[q].pc \in {"idle", "over"}
      BY <2>1, <2>2 DEF InProgress
    <3>2. OneRotation'
      BY <3>1 DEF OneRotation, InProgress
    <3>3. InSync'
      BY <1>0, <2>1 DEF SafeInv, InSync
    <3>4. \A q \in Rotations : FilesSoFar(q)'
      BY <2>2, <3>1, <3>3 DEF FilesSoFar
    <3> QED
      BY <1>2, <2>1, <3>2, <3>3, <3>4
  <2> QED
    BY <2>3, <2>4 DEF RotationInv
\* Every other step: the rotation is in progress, and goes to phase k.
<1>5. ASSUME NEW k \in RotationPhases \ {"idle"}, Goes(r, k) \/ (k = "over" /\ Over(r)),
             InProgress(r),
             files' \in [key : Keys \cup {NoKey}, pub : Keys \cup {NoKey},
                         oldKey : Keys \cup {NoKey}, oldPub : Keys \cup {NoKey}],
             ~unsafe' => ~unsafe,
             ~unsafe' => /\ manager' = [signer |-> manager'.signer, public |-> manager'.signer]
                         /\ k = "over" => InSync'
                         /\ k \in {"append", "backup", "backupPub", "save", "test"} => InSync'
                         /\ k \in {"backupPub", "save", "savePub", "restore"} => files'.oldKey = manager'.signer
                         /\ k \in {"save", "savePub", "restore", "restorePub"} => files'.oldPub = manager'.signer
                         /\ k = "savePub" => files'.key = r /\ files'.pub = manager'.signer
                         /\ k = "restorePub" => files'.key = manager'.signer
                         /\ k = "reload" => files'.key = r /\ files'.pub = r
      PROVE  RotationInv'
  <2>1. /\ rotation' \in [Rotations -> [pc : RotationPhases, agent : [Agents -> {"todo", "appended", "failed", "tested", "ok"}]]]
        /\ rotation'[r].pc = k /\ \A q \in Rotations \ {r} : rotation'[q] = rotation[q]
    BY <1>0, <1>5, RotationMoves
  <2>2. RotationType'
    BY <1>5, <2>1 DEF RotationType
  <2>3. ~unsafe' => FilesSoFar(r)'
    BY <1>5, <2>1 DEF FilesSoFar
  <2>4. SafeInv'
    BY <1>0, <1>5, <2>1, <2>3, PhaseStep
  <2> QED
    BY <2>2, <2>4 DEF RotationInv
<1>6. CASE Appended(r)
  <2>1. Goes(r, "backup") /\ rotation[r].pc = "append" /\ files' = files /\ manager' = manager /\ unsafe' = unsafe
    BY <1>6 DEF Appended
  <2> QED
    BY <1>1, <1>2, <1>3, <1>5, <2>1 DEF FilesSoFar, InSync, InProgress
<1>7. CASE BackUp(r)
  <2>1. manager' = manager /\ unsafe' = unsafe
    BY <1>7 DEF BackUp
  <2>2. CASE rotation[r].pc = "backup"
    <3>1. Goes(r, "backupPub") /\ files' = [files EXCEPT !.oldKey = files.key]
      BY <1>7, <2>2 DEF BackUp
    <3> QED
      BY <1>1, <1>2, <1>3, <1>5, <2>1, <2>2, <3>1 DEF FilesSoFar, InSync, InProgress
  <2>3. CASE rotation[r].pc = "backupPub"
    <3>1. Goes(r, "save") /\ files' = [files EXCEPT !.oldPub = files.pub]
      BY <1>7, <2>3 DEF BackUp
    <3> QED
      BY <1>1, <1>2, <1>3, <1>5, <2>1, <2>3, <3>1 DEF FilesSoFar, InSync, InProgress
  <2> QED
    BY <1>7, <2>2, <2>3 DEF BackUp
<1>8. CASE BackUpFails(r)
  <2>1. /\ rotation[r].pc \in {"backup", "backupPub"} /\ Over(r) /\ manager' = manager /\ unsafe' = unsafe
        /\ files' \in {files, [files EXCEPT !.oldKey = NoKey]}
    BY <1>8 DEF BackUpFails
  <2>2. files'.key = files.key /\ files'.pub = files.pub
    BY <1>1, <2>1
  <2>3. files' \in [key : Keys \cup {NoKey}, pub : Keys \cup {NoKey},
                    oldKey : Keys \cup {NoKey}, oldPub : Keys \cup {NoKey}]
    BY <1>1, <2>1
  <2> QED
    BY <1>2, <1>3, <1>5, <2>1, <2>2, <2>3 DEF FilesSoFar, InSync, InProgress
<1>9. CASE SaveKeyPair(r)
  <2>1. manager' = manager /\ unsafe' = unsafe
    BY <1>9 DEF SaveKeyPair
  <2>2. CASE rotation[r].pc = "save"
    <3>1. Goes(r, "savePub") /\ files' = [files EXCEPT !.key = r]
      BY <1>9, <2>2 DEF SaveKeyPair
    <3> QED
      BY <1>1, <1>2, <1>3, <1>5, <2>1, <2>2, <3>1 DEF FilesSoFar, InSync, InProgress
  <2>3. CASE rotation[r].pc = "savePub"
    <3>1. Goes(r, "reload") /\ files' = [files EXCEPT !.pub = r]
      BY <1>9, <2>3 DEF SaveKeyPair
    <3> QED
      BY <1>1, <1>2, <1>3, <1>5, <2>1, <2>3, <3>1 DEF FilesSoFar, InSync, InProgress
  <2> QED
    BY <1>9, <2>2, <2>3 DEF SaveKeyPair
<1>10. CASE SaveFails(r)
  <2>1. /\ rotation[r].pc \in {"save", "savePub"} /\ Goes(r, "restore") /\ manager' = manager /\ unsafe' = unsafe
        /\ \E k \in {files.key, files.pub, NoKey} : files' \in {[files EXCEPT !.key = k], [files EXCEPT !.pub = k]}
    BY <1>10 DEF SaveFails
  <2>2. /\ files' \in [key : Keys \cup {NoKey}, pub : Keys \cup {NoKey},
                       oldKey : Keys \cup {NoKey}, oldPub : Keys \cup {NoKey}]
        /\ files'.oldKey = files.oldKey /\ files'.oldPub = files.oldPub
    BY <1>1, <2>1
  <2> QED
    BY <1>2, <1>3, <1>5, <2>1, <2>2 DEF FilesSoFar, InProgress
<1>11. CASE restoreFile(r)
  <2>1. manager' = manager /\ unsafe' = unsafe
    BY <1>11 DEF restoreFile
  <2>2. CASE rotation[r].pc = "restore"
    <3>1. Goes(r, "restorePub") /\ files' = [files EXCEPT !.key = files.oldKey, !.oldKey = NoKey]
      BY <1>11, <2>2 DEF restoreFile
    <3>2. files' \in [key : Keys \cup {NoKey}, pub : Keys \cup {NoKey},
                      oldKey : Keys \cup {NoKey}, oldPub : Keys \cup {NoKey}]
      BY <1>1, <3>1
    <3>3. files'.key = files.oldKey /\ files'.oldPub = files.oldPub
      BY <1>1, <3>1
    <3> QED
      BY <1>2, <1>3, <1>5, <2>1, <2>2, <3>1, <3>2, <3>3 DEF FilesSoFar, InProgress
  <2>3. CASE rotation[r].pc = "restorePub"
    <3>1. Over(r) /\ files' = [files EXCEPT !.pub = files.oldPub, !.oldPub = NoKey]
      BY <1>11, <2>3 DEF restoreFile
    <3>2. files' \in [key : Keys \cup {NoKey}, pub : Keys \cup {NoKey},
                      oldKey : Keys \cup {NoKey}, oldPub : Keys \cup {NoKey}]
      BY <1>1, <3>1
    <3>3. files'.key = files.key /\ files'.pub = files.oldPub
      BY <1>1, <3>1
    <3> QED
      BY <1>2, <1>3, <1>5, <2>1, <2>3, <3>1, <3>2, <3>3 DEF FilesSoFar, InSync, InProgress
  <2> QED
    BY <1>11, <2>2, <2>3 DEF restoreFile
<1>12. CASE RestoreFails(r)
  <2>1. /\ rotation[r].pc \in {"restore", "restorePub"} /\ unsafe' = TRUE /\ files' = files
        /\ Goes(r, "restorePub") \/ Over(r)
    BY <1>12 DEF RestoreFails
  <2>2. unsafe'
    BY <2>1
  <2> QED
    BY <1>1, <1>3, <1>5, <2>1, <2>2 DEF InProgress
<1>13. CASE ReloadKeys(r)
  <2>1. /\ rotation[r].pc = "reload" /\ Goes(r, "test") /\ manager' = [signer |-> r, public |-> r]
        /\ files' = files /\ unsafe' = unsafe
    BY <1>13 DEF ReloadKeys
  <2> QED
    BY <1>1, <1>2, <1>3, <1>5, <2>1 DEF FilesSoFar, InSync, InProgress
<1>14. CASE FinishRotation(r)
  <2>1. /\ rotation[r].pc = "test" /\ Over(r) /\ manager' = manager /\ unsafe' = unsafe
        /\ files' \in {files, [files EXCEPT !.oldKey = NoKey, !.oldPub = NoKey]}
    BY <1>14 DEF FinishRotation
  <2>2. /\ files' \in [key : Keys \cup {NoKey}, pub : Keys \cup {NoKey},
                       oldKey : Keys \cup {NoKey}, oldPub : Keys \cup {NoKey}]
        /\ files'.key = files.key /\ files'.pub = files.pub
    BY <1>1, <2>1
  <2> QED
    BY <1>2, <1>3, <1>5, <2>1, <2>2 DEF FilesSoFar, InSync, InProgress
<1> QED
  BY <1>4, <1>6, <1>7, <1>8, <1>9, <1>10, <1>11, <1>12, <1>13, <1>14

\* A rotation and one agent, and connections to agents: neither touches the
\* files or the manager.
LEMMA AgentStep ==
  ASSUME RotationInv, NEW a \in Agents,
         \/ \E r \in Rotations : \/ appendPublicKey(r, a) \/ AppendFails(r, a)
                                 \/ TestConnection(r, a) \/ RemoveOldKey(r, a)
         \/ ReadPublicKey(a) \/ Upload(a) \/ Connect(a) \/ LinkLost(a)
  PROVE  RotationInv'
<1>0. RotationType /\ SafeInv
  BY DEF RotationInv
<1>1. files' = files /\ manager' = manager /\ unsafe' = unsafe
  BY DEF appendPublicKey, AppendFails, TestConnection, RemoveOldKey, ReadPublicKey, Upload, Connect, LinkLost
<1>2. \/ rotation' = rotation
      \/ \E r \in Rotations, s \in {"todo", "appended", "failed", "tested", "ok"} : AgentGoes(r, a, s)
  BY DEF appendPublicKey, AppendFails, TestConnection, RemoveOldKey, ReadPublicKey, Upload, Connect, LinkLost
<1>3. /\ rotation' \in [Rotations -> [pc : RotationPhases, agent : [Agents -> {"todo", "appended", "failed", "tested", "ok"}]]]
      /\ \A q \in Rotations : rotation'[q].pc = rotation[q].pc
  BY <1>0, <1>2, RotationMoves DEF RotationType
<1>4. RotationType'
  BY <1>0, <1>1, <1>3 DEF RotationType
<1> QED
  BY <1>0, <1>1, <1>3, <1>4, SamePhases DEF RotationInv

\* Crash and boot.
LEMMA RestartStep ==
  ASSUME RotationInv, Restart
  PROVE  RotationInv'
<1>0. RotationType /\ SafeInv
  BY DEF RotationInv
<1>1. /\ manager' = [signer |-> files.key, public |-> files.pub] /\ files' = files
      /\ ~unsafe' => ~unsafe /\ \A r \in Rotations : rotation[r].pc \notin {"savePub", "restore", "restorePub"}
  BY DEF Restart
<1>2. rotation' = [r \in Rotations |->
       IF InProgress(r) THEN [pc |-> "over", agent |-> [a \in Agents |-> "todo"]] ELSE rotation[r]]
  BY DEF Restart
<1>3. RotationType'
  BY <1>0, <1>1, <1>2 DEF RotationType, RotationPhases
<1>4. \A r \in Rotations : rotation'[r].pc \in {"idle", "over"}
  BY <1>2 DEF InProgress
<1>5. ~unsafe' => files.key = files.pub
  <2> SUFFICES ASSUME ~unsafe' PROVE files.key = files.pub
    OBVIOUS
  <2>1. CASE \A r \in Rotations : ~InProgress(r)
    BY <1>0, <1>1, <2>1 DEF SafeInv, InSync
  <2>2. CASE \E r \in Rotations : InProgress(r)
    <3>1. PICK r \in Rotations : InProgress(r)
      BY <2>2
    <3>2. FilesSoFar(r) /\ rotation[r].pc \in {"append", "backup", "backupPub", "save", "reload", "test"}
      BY <1>0, <1>1, <3>1 DEF SafeInv, InProgress, RotationType, RotationPhases
    <3> QED
      BY <3>2 DEF FilesSoFar, InSync
  <2> QED
    BY <2>1, <2>2
<1>6. SafeInv'
  BY <1>1, <1>4, <1>5 DEF SafeInv, OneRotation, InProgress, InSync, FilesSoFar
<1> QED
  BY <1>3, <1>6 DEF RotationInv

\* Between rotations the key files and the manager hold one and the same pair,
\* whichever step failed or was cut short, unless rotations overlapped, a restore
\* failed or the process crashed between the two writes (RotateGlobalKeyPair,
\* SaveKeyPair, ReloadKeys).
THEOREM FilesMatchManager == KeySpec => []KeysInSync
<1>1. KeyInit => RotationInv
  <2> SUFFICES ASSUME KeyInit PROVE RotationInv
    OBVIOUS
  <2>0. 0 \in Keys
    BY RotationAssumption DEF Keys
  <2>1. RotationType
    BY <2>0 DEF KeyInit, RotationType, RotationPhases
  <2>2. \A r \in Rotations : rotation[r].pc = "idle"
    BY DEF KeyInit
  <2>3. manager = [signer |-> 0, public |-> 0] /\ files.key = 0 /\ files.pub = 0
    BY DEF KeyInit
  <2>4. SafeInv
    BY <2>2, <2>3 DEF SafeInv, OneRotation, InProgress, InSync, FilesSoFar
  <2> QED
    BY <2>1, <2>4 DEF RotationInv
<1>2. ASSUME RotationInv, [KeyNext]_keyVars PROVE RotationInv'
  <2>1. CASE UNCHANGED keyVars
    <3>1. SafeInv'
      BY <1>2, <2>1, SamePhases DEF keyVars, RotationInv
    <3> QED
      BY <1>2, <2>1, <3>1 DEF keyVars, RotationInv, RotationType
  <2>2. CASE KeyNext
    BY <1>2, <2>2, RotationStep, AgentStep, RestartStep DEF KeyNext
  <2> QED
    BY <1>2, <2>1, <2>2
<1>3. RotationInv => KeysInSync
  BY DEF RotationInv, SafeInv, InSync, KeysInSync
<1> QED
  BY <1>1, <1>2, <1>3, PTL DEF KeySpec

--------------------------------------------------------------------------------
(****************************************************************************)
(* Terminal sessions.                                                       *)
(****************************************************************************)

\* What a handler has at each step: a session once it has one, no output before
\* it attaches, and a mark that the output has reached.
HandlerInv ==
  \A c \in Sockets :
    /\ socket[c].pc \in {"info", "attach", "replay", "relay", "detach"} =>
         socket[c].session \in Sessions
    /\ socket[c].pc \in {"outside", "info", "attach"} =>
         socket[c].got = {} /\ socket[c].history = {}
    /\ socket[c].pc \in {"replay", "relay"} => socket[c].from <= ms[socket[c].session].written

\* A session's writer is a handler that has attached to it and has still to
\* detach; output is on its way only to a client that has attached.
WriterInv ==
  \A s \in Sessions :
    /\ ms[s].writer # Nobody =>
         /\ socket[ms[s].writer].session = s
         /\ socket[ms[s].writer].pc \in {"replay", "relay", "detach"}
    /\ pump[s].to # Nobody =>
         socket[pump[s].to].pc \in {"replay", "relay", "detach", "gone"}

\* OutputOnce, for one client and its session.
Live(c, s) == IF pump[s].to = c THEN {pump[s].chunk} ELSE {}

Seen(c, s) == {n \in 1..ms[s].written : n + Scrollback > socket[c].from}

ServedOnce(c, s) ==
  /\ Live(c, s) \cap socket[c].got = {}
  /\ socket[c].history \cap (socket[c].got \cup Live(c, s)) = {}
  /\ Seen(c, s) = socket[c].got \cup Live(c, s) \cup socket[c].history

Serves(c, s) ==
  socket[c].session = s /\ socket[c].pc \in {"replay", "relay"} /\ ms[s].writer = c

ServedInv == \A c \in Sockets, s \in Sessions : Serves(c, s) => ServedOnce(c, s)

TermInv == TermTypeOK /\ HandlerInv /\ WriterInv /\ ServedInv

\* The constants are what they are said to be, and the records have their types.
LEMMA TermRecords ==
  /\ NoMS \in ManagedSessions /\ [NoMS EXCEPT !.shell = "up"] \in ManagedSessions
  /\ Resting.to = Nobody /\ Resting \in [chunk : Nat, to : Sockets \cup {Nobody}]
  /\ Outside \in Handlers /\ Gone \in Handlers
  /\ Outside.pc = "outside" /\ Outside.got = {} /\ Outside.history = {}
  /\ Gone.pc = "gone" /\ Gone.session = NoSession
<1>1. NoMS \in ManagedSessions /\ [NoMS EXCEPT !.shell = "up"] \in ManagedSessions
  <2>1. 0 \in 0..MaxChunks
    BY TerminalAssumption
  <2> QED
    BY <2>1 DEF NoMS, ManagedSessions
<1>2. Outside \in Handlers /\ Outside.pc = "outside" /\ Outside.got = {} /\ Outside.history = {}
      /\ Outside.session = NoSession
  BY DEF Outside, Handlers
<1>3. Gone \in Handlers /\ Gone.pc = "gone" /\ Gone.session = NoSession
  BY DEF Outside, Gone, Handlers
<1> QED
  BY <1>1, <1>2, <1>3 DEF Resting

\* The next states of a handler and of a session, field by field.
LEMMA MSFields ==
  ASSUME NEW m \in ManagedSessions
  PROVE  /\ \A w \in Sockets \cup {Nobody}, a, d \in BOOLEAN :
              [m EXCEPT !.attached = a, !.detached = d, !.writer = w] \in ManagedSessions
         /\ \A w \in Sockets \cup {Nobody} :
              [m EXCEPT !.writer = w, !.shell = "down"] \in ManagedSessions
         /\ \A n \in 0..MaxChunks : [m EXCEPT !.written = n] \in ManagedSessions
         /\ [m EXCEPT !.done = TRUE] \in ManagedSessions
         /\ [m EXCEPT !.shell = "down"] \in ManagedSessions
  BY DEF ManagedSessions

(* The fields of a WebSocket handler that an update changes keep their types. *)
LEMMA HandlerFields ==
  ASSUME NEW h \in Handlers
  PROVE  /\ \A pc \in {"attach", "detach"} : [h EXCEPT !.pc = pc] \in Handlers
         /\ \A s \in Sessions : [h EXCEPT !.pc = "info", !.session = s] \in Handlers
         /\ \A b \in SUBSET Nat, n \in Nat :
              [h EXCEPT !.pc = "replay", !.history = b, !.from = n] \in Handlers
         /\ \A b \in SUBSET Nat :
              [h EXCEPT !.pc = "relay", !.got = b, !.history = {}] \in Handlers
         /\ \A b \in SUBSET Nat : [h EXCEPT !.got = b] \in Handlers
  BY DEF Handlers

\* Every step keeps the types.
LEMMA TermTypeStep ==
  ASSUME TermInv, [TermNext]_termVars
  PROVE  TermTypeOK'
<1>0. /\ TermTypeOK /\ HandlerInv
      /\ \A s \in Sessions : ms[s] \in ManagedSessions /\ ms[s].written \in 0..MaxChunks /\ ms[s].written \in Nat
      /\ \A s \in Sessions : pump[s].to \in Sockets \cup {Nobody} /\ pump[s].chunk \in Nat
      /\ \A c \in Sockets : socket[c] \in Handlers /\ socket[c].got \in SUBSET Nat
                                             /\ socket[c].history \in SUBSET Nat
  BY DEF TermInv, TermTypeOK, ManagedSessions, Handlers
<1> USE DEF TermTypeOK
<1>1. ASSUME NEW c \in Sockets, NEW s \in Sessions, CreateSession(c, s) PROVE TermTypeOK'
  BY <1>0, <1>1, MSFields, HandlerFields, TermRecords DEF CreateSession
<1>2. ASSUME NEW c \in Sockets, NEW s \in Sessions, Reconnect(c, s) PROVE TermTypeOK'
  BY <1>0, <1>2, MSFields, HandlerFields, TermRecords DEF Reconnect
<1>3. ASSUME NEW c \in Sockets, SendInfo(c) PROVE TermTypeOK'
  <2>1. PICK h \in Handlers : socket' = [socket EXCEPT ![c] = h]
    <3>1. [socket[c] EXCEPT !.pc = "attach"] \in Handlers /\ Gone \in Handlers
      BY <1>0, HandlerFields, TermRecords
    <3> QED
      BY <1>3, <3>1 DEF SendInfo
  <2> QED
    BY <1>0, <1>3, <2>1 DEF SendInfo
<1>4. ASSUME NEW c \in Sockets, Attach(c) PROVE TermTypeOK'
  <2>1. socket[c].session \in Sessions /\ HistoryBytes(socket[c].session) \in SUBSET Nat
    BY <1>0, <1>4 DEF Attach, HandlerInv, HistoryBytes
  <2>2. PICK s \in Sessions : s = socket[c].session
    BY <2>1
  <2>3. [ms[s] EXCEPT !.attached = TRUE, !.detached = FALSE, !.writer = c] \in ManagedSessions
    BY <1>0, MSFields
  <2>4. [socket[c] EXCEPT !.pc = "replay", !.history = HistoryBytes(s), !.from = ms[s].written] \in Handlers
    BY <1>0, <2>1, <2>2, HandlerFields
  <2> QED
    BY <1>0, <1>4, <2>2, <2>3, <2>4 DEF Attach
<1>5. ASSUME NEW c \in Sockets, Replay(c) PROVE TermTypeOK'
  <2>1. PICK h \in Handlers : socket' = [socket EXCEPT ![c] = h]
    <3>1. [socket[c] EXCEPT !.pc = "relay", !.got = socket[c].got \cup socket[c].history, !.history = {}]
            \in Handlers
      BY <1>0, HandlerFields
    <3>2. [socket[c] EXCEPT !.pc = "detach"] \in Handlers
      BY <1>0, HandlerFields
    <3> QED
      BY <1>5, <3>1, <3>2 DEF Replay
  <2> QED
    BY <1>0, <1>5, <2>1 DEF Replay
<1>6. ASSUME NEW c \in Sockets, Leave(c) PROVE TermTypeOK'
  BY <1>0, <1>6, MSFields, HandlerFields, TermRecords DEF Leave
<1>7. ASSUME NEW c \in Sockets, SessionDone(c) PROVE TermTypeOK'
  BY <1>0, <1>7, MSFields, HandlerFields, TermRecords DEF SessionDone
<1>8. ASSUME NEW c \in Sockets, Detach(c) PROVE TermTypeOK'
  BY <1>0, <1>8, MSFields, TermRecords DEF Detach, HandlerInv
<1>9. ASSUME NEW s \in Sessions, PumpReads(s) PROVE TermTypeOK'
  <2>1. ms[s].written + 1 \in 0..MaxChunks /\ ms[s].writer \in Sockets \cup {Nobody}
    BY <1>0, <1>9, TerminalAssumption DEF PumpReads, ManagedSessions
  <2>2. [ms[s] EXCEPT !.written = ms[s].written + 1] \in ManagedSessions
    BY <1>0, <2>1, MSFields
  <2>3. [chunk |-> ms[s].written + 1, to |-> ms[s].writer] \in [chunk : Nat, to : Sockets \cup {Nobody}]
    BY <2>1
  <2> QED
    BY <1>0, <1>9, <2>2, <2>3 DEF PumpReads
<1>10. ASSUME NEW s \in Sessions, PumpWrites(s) PROVE TermTypeOK'
  <2>1. \A c \in Sockets : [socket[c] EXCEPT !.got = socket[c].got \cup {pump[s].chunk}] \in Handlers
    BY <1>0, HandlerFields
  <2>2. pump' \in [Sessions -> [chunk : Nat, to : Sockets \cup {Nobody}]]
    BY <1>0, <1>10, TermRecords DEF PumpWrites
  <2> QED
    BY <1>0, <1>10, <2>1, <2>2 DEF PumpWrites
<1>11. ASSUME NEW s \in Sessions, PumpEnds(s) PROVE TermTypeOK'
  BY <1>0, <1>11, MSFields, HandlerFields, TermRecords DEF PumpEnds
<1>12. ASSUME NEW s \in Sessions, ShellExits(s) PROVE TermTypeOK'
  BY <1>0, <1>12, MSFields, HandlerFields, TermRecords DEF ShellExits
<1>13. ASSUME NEW s \in Sessions, CloseSession(s) PROVE TermTypeOK'
  BY <1>0, <1>13, MSFields, HandlerFields, TermRecords DEF CloseSession, RemoveSession
<1>14. ASSUME NEW s \in Sessions, reapIdle(s) PROVE TermTypeOK'
  BY <1>0, <1>14, MSFields, HandlerFields, TermRecords DEF reapIdle, RemoveSession
<1>15. ASSUME NEW s \in Sessions, CloseManaged(s) PROVE TermTypeOK'
  BY <1>0, <1>15, MSFields, HandlerFields, TermRecords DEF CloseManaged
<1>16. CASE UNCHANGED termVars
  BY <1>0, <1>16, MSFields, HandlerFields, TermRecords DEF termVars
<1> QED
  BY <1>1, <1>2, <1>3, <1>4, <1>5, <1>6, <1>7, <1>8, <1>9, <1>10, <1>11, <1>12, <1>13, <1>14, <1>15, <1>16
  DEF TermNext, HandlerStep, SessionStep

\* A handler that does not change what it has of its session's output.
LEMMA HandlerMoves ==
  ASSUME TermInv, NEW c \in Sockets, NEW h \in Handlers,
         socket' = [socket EXCEPT ![c] = h], pump' = pump,
         \A s \in Sessions : ms'[s].writer = ms[s].writer /\ ms'[s].written = ms[s].written,
         h.pc \in {"info", "attach", "detach", "gone"},
         h.pc # "gone" => h.session \in Sessions,
         h.pc \in {"info", "attach"} =>
           /\ socket[c].pc \in {"outside", "info", "attach"}
           /\ h.got = {} /\ h.history = {},
         h.pc = "detach" => socket[c].pc \in {"replay", "relay"} /\ h.session = socket[c].session,
         h.pc = "gone" => socket[c].pc \in {"outside", "info", "attach"}
  PROVE  HandlerInv' /\ WriterInv' /\ ServedInv'
<1>1. socket \in [Sockets -> Handlers] /\ HandlerInv /\ WriterInv /\ ServedInv
  BY DEF TermInv, TermTypeOK
<1>2. socket'[c] = h /\ \A d \in Sockets \ {c} : socket'[d] = socket[d]
  BY <1>1
<1>3. \A s \in Sessions : ms[s].writer \in Sockets \cup {Nobody} /\ pump[s].to \in Sockets \cup {Nobody}
  BY DEF TermInv, TermTypeOK, ManagedSessions
<1>4. HandlerInv'
  BY <1>1, <1>2 DEF HandlerInv
<1>5. WriterInv'
  BY <1>1, <1>2, <1>3 DEF WriterInv
<1>6. ServedInv'
  <2> SUFFICES ASSUME NEW d \in Sockets, NEW s \in Sessions, Serves(d, s)' PROVE ServedOnce(d, s)'
    BY DEF ServedInv
  <2>1. d # c /\ socket'[d] = socket[d]
    BY <1>2 DEF Serves
  <2>2. Serves(d, s)
    BY <2>1 DEF Serves
  <2> QED
    BY <1>1, <2>1, <2>2 DEF ServedInv, ServedOnce, Live, Seen
<1> QED
  BY <1>4, <1>5, <1>6

\* A step that at most takes a session's writer away.
LEMMA SessionMoves ==
  ASSUME TermInv, socket' = socket, pump' = pump,
         \A s \in Sessions : /\ ms'[s].writer \in {ms[s].writer, Nobody}
                             /\ ms'[s].written = ms[s].written
  PROVE  HandlerInv' /\ WriterInv' /\ ServedInv'
<1>1. HandlerInv /\ WriterInv /\ ServedInv
  BY DEF TermInv
<1>2. HandlerInv'
  BY <1>1 DEF HandlerInv
<1>3. WriterInv'
  BY <1>1 DEF WriterInv
<1>4. ServedInv'
  <2> SUFFICES ASSUME NEW d \in Sockets, NEW s \in Sessions, Serves(d, s)' PROVE ServedOnce(d, s)'
    BY DEF ServedInv
  <2>1. Serves(d, s)
    BY TerminalAssumption DEF Serves
  <2> QED
    BY <1>1, <2>1 DEF ServedInv, ServedOnce, Live, Seen
<1> QED
  BY <1>2, <1>3, <1>4

\* Attach: the lock makes the scrollback and what the pump reads from then on
\* meet without a gap and without an overlap.
LEMMA AttachKeeps ==
  ASSUME TermInv, NEW c \in Sockets, Attach(c)
  PROVE  HandlerInv' /\ WriterInv' /\ ServedInv'
<1>1. /\ socket \in [Sockets -> Handlers] /\ ms \in [Sessions -> ManagedSessions]
      /\ HandlerInv /\ WriterInv /\ ServedInv
  BY DEF TermInv, TermTypeOK
<1>2. PICK s \in Sessions : s = socket[c].session
  BY <1>1 DEF Attach, HandlerInv
<1>3. /\ ms[s] \in ManagedSessions /\ ms[s].written \in Nat
      /\ socket[c] \in Handlers /\ socket[c].pc = "attach" /\ socket[c].got = {}
  BY <1>1, TerminalAssumption DEF ManagedSessions, Attach, HandlerInv
<1>4. /\ ms'[s].writer = c /\ ms'[s].written = ms[s].written
      /\ \A t \in Sessions \ {s} : ms'[t] = ms[t]
  BY <1>1, <1>2, <1>3 DEF Attach, ManagedSessions
<1>5. /\ socket'[c].pc = "replay" /\ socket'[c].session = s /\ socket'[c].got = {}
      /\ socket'[c].history = HistoryBytes(s) /\ socket'[c].from = ms[s].written
      /\ \A d \in Sockets \ {c} : socket'[d] = socket[d]
  BY <1>1, <1>2, <1>3 DEF Attach, Handlers
<1>6. pump' = pump
  BY DEF Attach
<1>7. /\ \A t \in Sessions : ms[t].writer \in Sockets \cup {Nobody} /\ ms[t].writer # c
      /\ \A t \in Sessions : pump[t].to \in Sockets \cup {Nobody} /\ pump[t].to # c
  <2>1. \A t \in Sessions : ms[t].writer \in Sockets \cup {Nobody} /\ pump[t].to \in Sockets \cup {Nobody}
    BY DEF TermInv, TermTypeOK, ManagedSessions
  <2> QED
    BY <1>1, <1>3, <2>1, TerminalAssumption DEF WriterInv
<1>8. HandlerInv'
  <2> SUFFICES ASSUME NEW d \in Sockets
               PROVE  /\ socket'[d].pc \in {"info", "attach", "replay", "relay", "detach"} =>
                           socket'[d].session \in Sessions
                      /\ socket'[d].pc \in {"outside", "info", "attach"} =>
                           socket'[d].got = {} /\ socket'[d].history = {}
                      /\ socket'[d].pc \in {"replay", "relay"} =>
                           socket'[d].from <= ms'[socket'[d].session].written
    BY DEF HandlerInv
  <2>1. CASE d = c
    BY <1>3, <1>4, <1>5, <2>1
  <2>2. CASE d # c
    BY <1>1, <1>4, <1>5, <2>2 DEF HandlerInv
  <2> QED
    BY <2>1, <2>2
<1>9. WriterInv'
  BY <1>1, <1>4, <1>5, <1>6, <1>7, TerminalAssumption DEF WriterInv
<1>10. ServedInv'
  <2> SUFFICES ASSUME NEW d \in Sockets, NEW t \in Sessions, Serves(d, t)' PROVE ServedOnce(d, t)'
    BY DEF ServedInv
  <2>1. CASE d = c
    <3>1. t = s
      BY <1>5, <2>1 DEF Serves
    <3>2. Live(d, t)' = {} /\ Seen(d, t)' = HistoryBytes(s)
      BY <1>4, <1>5, <1>6, <1>7, <2>1, <3>1 DEF Live, Seen, HistoryBytes
    <3> QED
      BY <1>5, <2>1, <3>2 DEF ServedOnce
  <2>2. CASE d # c
    <3>1. t # s /\ socket'[d] = socket[d] /\ ms'[t] = ms[t]
      BY <1>4, <1>5, <2>2 DEF Serves
    <3>2. Serves(d, t)
      BY <3>1 DEF Serves
    <3> QED
      BY <1>1, <1>6, <3>1, <3>2 DEF ServedInv, ServedOnce, Live, Seen
  <2> QED
    BY <2>1, <2>2
<1> QED
  BY <1>8, <1>9, <1>10

\* Replay: the history goes to the client.
LEMMA ReplayKeeps ==
  ASSUME TermInv, NEW c \in Sockets, Replay(c)
  PROVE  HandlerInv' /\ WriterInv' /\ ServedInv'
<1>1. /\ socket \in [Sockets -> Handlers] /\ socket[c] \in Handlers
      /\ HandlerInv /\ WriterInv /\ ServedInv
  BY DEF TermInv, TermTypeOK
<1>2. CASE socket' = [socket EXCEPT ![c] = [socket[c] EXCEPT !.pc = "detach"]]
  <2>1. PICK h \in Handlers : h = [socket[c] EXCEPT !.pc = "detach"]
    BY <1>1, HandlerFields
  <2>2. h.pc = "detach" /\ h.session = socket[c].session
    BY <1>1, <2>1 DEF Handlers
  <2>3. h.session \in Sessions
    BY <1>1, <2>2 DEF HandlerInv, Replay
  <2> QED
    BY <1>2, <2>1, <2>2, <2>3, HandlerMoves DEF Replay
<1>3. CASE socket' = [socket EXCEPT ![c] =
             [socket[c] EXCEPT !.pc = "relay", !.got = socket[c].got \cup socket[c].history, !.history = {}]]
  <2>1. /\ socket'[c].pc = "relay" /\ socket'[c].session = socket[c].session
        /\ socket'[c].got = socket[c].got \cup socket[c].history /\ socket'[c].history = {}
        /\ socket'[c].from = socket[c].from
        /\ \A d \in Sockets \ {c} : socket'[d] = socket[d]
    BY <1>1, <1>3 DEF Handlers
  <2>2. ms' = ms /\ pump' = pump /\ socket[c].pc = "replay"
    BY DEF Replay
  <2>3. HandlerInv'
    BY <1>1, <2>1, <2>2 DEF HandlerInv
  <2>4. WriterInv'
    <3>1. \A t \in Sessions : ms[t].writer \in Sockets \cup {Nobody} /\ pump[t].to \in Sockets \cup {Nobody}
      BY DEF TermInv, TermTypeOK, ManagedSessions
    <3> QED
      BY <1>1, <2>1, <2>2, <3>1 DEF WriterInv
  <2>5. ServedInv'
    <3> SUFFICES ASSUME NEW d \in Sockets, NEW t \in Sessions, Serves(d, t)' PROVE ServedOnce(d, t)'
      BY DEF ServedInv
    <3>1. Serves(d, t)
      BY <2>1, <2>2 DEF Serves
    <3>2. ServedOnce(d, t)
      BY <1>1, <3>1 DEF ServedInv
    <3>3. Live(d, t)' = Live(d, t) /\ Seen(d, t)' = Seen(d, t)
      BY <2>1, <2>2 DEF Live, Seen
    <3>4. CASE d = c
      BY <2>1, <3>2, <3>3, <3>4 DEF ServedOnce
    <3>5. CASE d # c
      BY <2>1, <3>2, <3>3, <3>5 DEF ServedOnce
    <3> QED
      BY <3>4, <3>5
  <2> QED
    BY <2>3, <2>4, <2>5
<1> QED
  BY <1>2, <1>3 DEF Replay

\* Detach takes the writer away, whoever it is.
LEMMA DetachKeeps ==
  ASSUME TermInv, NEW c \in Sockets, Detach(c)
  PROVE  HandlerInv' /\ WriterInv' /\ ServedInv'
<1>1. /\ socket \in [Sockets -> Handlers] /\ ms \in [Sessions -> ManagedSessions]
      /\ HandlerInv /\ WriterInv /\ ServedInv
  BY DEF TermInv, TermTypeOK
<1>2. PICK s \in Sessions : s = socket[c].session
  BY <1>1 DEF Detach, HandlerInv
<1>3. /\ ms'[s].writer = Nobody /\ ms'[s].written = ms[s].written
      /\ \A t \in Sessions \ {s} : ms'[t] = ms[t]
  BY <1>1, <1>2 DEF Detach, ManagedSessions
<1>4. /\ socket'[c].pc = "gone" /\ socket[c].pc = "detach"
      /\ \A d \in Sockets \ {c} : socket'[d] = socket[d]
  BY <1>1, TermRecords DEF Detach
<1>5. pump' = pump
  BY DEF Detach
<1>6. HandlerInv'
  BY <1>1, <1>3, <1>4 DEF HandlerInv
<1>7. WriterInv'
  <2>1. \A t \in Sessions : /\ ms[t].writer \in Sockets \cup {Nobody}
                            /\ pump[t].to \in Sockets \cup {Nobody}
    BY DEF TermInv, TermTypeOK, ManagedSessions
  <2>2. \A t \in Sessions \ {s} : ms[t].writer # c
    BY <1>1, <1>2, TerminalAssumption DEF WriterInv
  <2> QED
    BY <1>1, <1>3, <1>4, <1>5, <2>1, <2>2 DEF WriterInv
<1>8. ServedInv'
  <2> SUFFICES ASSUME NEW d \in Sockets, NEW t \in Sessions, Serves(d, t)' PROVE ServedOnce(d, t)'
    BY DEF ServedInv
  <2>1. t # s /\ d # c
    BY <1>3, <1>4, TerminalAssumption DEF Serves
  <2>2. Serves(d, t)
    BY <1>3, <1>4, <2>1 DEF Serves
  <2> QED
    BY <1>1, <1>3, <1>4, <1>5, <2>1, <2>2 DEF ServedInv, ServedOnce, Live, Seen
<1> QED
  BY <1>6, <1>7, <1>8

\* The pump reads: a chunk that the writer of the session has not seen.
LEMMA ReadKeeps ==
  ASSUME TermInv, NEW s \in Sessions, PumpReads(s)
  PROVE  HandlerInv' /\ WriterInv' /\ ServedInv'
<1>1. /\ ms \in [Sessions -> ManagedSessions] /\ HandlerInv /\ WriterInv /\ ServedInv
      /\ pump \in [Sessions -> [chunk : Nat, to : Sockets \cup {Nobody}]]
      /\ socket \in [Sockets -> Handlers]
  BY DEF TermInv, TermTypeOK
<1>2. /\ ms'[s].written = ms[s].written + 1 /\ ms'[s].writer = ms[s].writer
      /\ \A t \in Sessions \ {s} : ms'[t] = ms[t]
  BY <1>1 DEF PumpReads, ManagedSessions
<1>3. /\ pump'[s].chunk = ms[s].written + 1 /\ pump'[s].to = ms[s].writer /\ pump[s].to = Nobody
      /\ \A t \in Sessions \ {s} : pump'[t] = pump[t]
  BY <1>1, TermRecords DEF PumpReads
<1>4. socket' = socket
  BY DEF PumpReads
<1>5. \A t \in Sessions : ms[t].written \in Nat
  BY <1>1, TerminalAssumption DEF ManagedSessions
<1>6. \A d \in Sockets : socket[d].from \in Nat
  BY <1>1 DEF Handlers
<1>7. HandlerInv'
  BY <1>1, <1>2, <1>4, <1>5, <1>6 DEF HandlerInv
<1>8. WriterInv'
  BY <1>1, <1>2, <1>3, <1>4 DEF WriterInv
<1>9. ServedInv'
  <2> SUFFICES ASSUME NEW d \in Sockets, NEW t \in Sessions, Serves(d, t)' PROVE ServedOnce(d, t)'
    BY DEF ServedInv
  <2>1. Serves(d, t)
    BY <1>2, <1>4 DEF Serves
  <2>2. ServedOnce(d, t)
    BY <1>1, <2>1 DEF ServedInv
  <2>3. CASE t = s
    <3> DEFINE n == ms[s].written + 1
    <3>1. Live(d, t) = {} /\ Live(d, t)' = {n}
      BY <1>2, <1>3, <2>1, <2>3, TerminalAssumption DEF Live, Serves
    <3>2. socket[d].from <= ms[s].written
      BY <1>1, <2>1, <2>3 DEF HandlerInv, Serves
    <3>3. Seen(d, t)' = Seen(d, t) \cup {n} /\ n \notin Seen(d, t)
      BY <1>2, <1>4, <1>5, <1>6, <2>3, <3>2, TerminalAssumption DEF Seen
    <3> HIDE DEF n
    <3> QED
      BY <1>4, <2>2, <3>1, <3>3 DEF ServedOnce
  <2>4. CASE t # s
    BY <1>2, <1>3, <1>4, <2>2, <2>4 DEF ServedOnce, Live, Seen
  <2> QED
    BY <2>3, <2>4
<1> QED
  BY <1>7, <1>8, <1>9

\* The pump writes: what was on its way has arrived.
LEMMA WriteKeeps ==
  ASSUME TermInv, NEW s \in Sessions, PumpWrites(s)
  PROVE  HandlerInv' /\ WriterInv' /\ ServedInv'
<1>1. /\ HandlerInv /\ WriterInv /\ ServedInv
      /\ pump \in [Sessions -> [chunk : Nat, to : Sockets \cup {Nobody}]]
      /\ socket \in [Sockets -> Handlers]
  BY DEF TermInv, TermTypeOK
<1>2. ms' = ms
  BY DEF PumpWrites
<1>3. /\ pump'[s].to = Nobody /\ \A t \in Sessions \ {s} : pump'[t] = pump[t]
  BY <1>1, TermRecords DEF PumpWrites
<1>4. \A d \in Sockets : /\ socket'[d].pc = socket[d].pc /\ socket'[d].session = socket[d].session
                         /\ socket'[d].history = socket[d].history /\ socket'[d].from = socket[d].from
                         /\ socket'[d].got = IF d = pump[s].to /\ socket[d].session = s
                                             THEN socket[d].got \cup {pump[s].chunk}
                                             ELSE socket[d].got
  BY <1>1 DEF PumpWrites, Handlers
<1>5. HandlerInv'
  <2>1. \A d \in Sockets : d = pump[s].to => socket[d].pc \notin {"outside", "info", "attach"}
    BY <1>1, TerminalAssumption DEF WriterInv
  <2> QED
    BY <1>1, <1>2, <1>4, <2>1 DEF HandlerInv
<1>6. WriterInv'
  <2>1. \A t \in Sessions : ms[t].writer \in Sockets \cup {Nobody} /\ pump[t].to \in Sockets \cup {Nobody}
    BY DEF TermInv, TermTypeOK, ManagedSessions
  <2>2. \A d \in Sockets : socket'[d].pc = socket[d].pc /\ socket'[d].session = socket[d].session
    BY <1>4
  <2>3. \A t \in Sessions : pump'[t].to \in {pump[t].to, Nobody}
    BY <1>3
  <2> QED
    BY <1>1, <1>2, <2>1, <2>2, <2>3 DEF WriterInv
<1>7. ServedInv'
  <2> SUFFICES ASSUME NEW d \in Sockets, NEW t \in Sessions, Serves(d, t)' PROVE ServedOnce(d, t)'
    BY DEF ServedInv
  <2>1. Serves(d, t)
    BY <1>2, <1>4 DEF Serves
  <2>2. ServedOnce(d, t)
    BY <1>1, <2>1 DEF ServedInv
  <2>3. Seen(d, t)' = Seen(d, t)
    BY <1>2, <1>4 DEF Seen
  <2>4. socket[d].session = t
    BY <2>1 DEF Serves
  <2>5. CASE t = s /\ pump[s].to = d
    <3>1. Live(d, t)' = {} /\ Live(d, t) = {pump[s].chunk}
      BY <1>3, <2>5, TerminalAssumption DEF Live
    <3>2. socket'[d].got = socket[d].got \cup {pump[s].chunk}
      BY <1>4, <2>4, <2>5
    <3> QED
      BY <1>4, <2>2, <2>3, <3>1, <3>2 DEF ServedOnce
  <2>6. CASE ~(t = s /\ pump[s].to = d)
    <3>1. Live(d, t)' = Live(d, t)
      BY <1>3, <2>6, TerminalAssumption DEF Live
    <3>2. socket'[d].got = socket[d].got
      BY <1>4, <2>4, <2>6
    <3> QED
      BY <1>4, <2>2, <2>3, <3>1, <3>2 DEF ServedOnce
  <2> QED
    BY <2>5, <2>6
<1> QED
  BY <1>5, <1>6, <1>7

\* Every step keeps the invariant.
LEMMA ServedStep ==
  ASSUME TermInv, [TermNext]_termVars
  PROVE  HandlerInv' /\ WriterInv' /\ ServedInv'
<1>0. /\ ms \in [Sessions -> ManagedSessions] /\ socket \in [Sockets -> Handlers] /\ HandlerInv
      /\ \A c \in Sockets : socket[c] \in Handlers
  BY DEF TermInv, TermTypeOK
<1>1. ASSUME NEW c \in Sockets, NEW s \in Sessions, CreateSession(c, s)
      PROVE  HandlerInv' /\ WriterInv' /\ ServedInv'
  <2>1. PICK h \in Handlers : h = [socket[c] EXCEPT !.pc = "info", !.session = s]
    BY <1>0, HandlerFields
  <2>2. /\ h.pc = "info" /\ h.session = s /\ h.got = socket[c].got /\ h.history = socket[c].history
    BY <1>0, <2>1 DEF Handlers
  <2>3. h.got = {} /\ h.history = {}
    BY <1>0, <1>1, <2>2 DEF HandlerInv, CreateSession
  <2>4. \A t \in Sessions : ms'[t].writer = ms[t].writer /\ ms'[t].written = ms[t].written
    BY <1>0, <1>1 DEF CreateSession, NoMS
  <2> QED
    BY <1>1, <2>1, <2>2, <2>3, <2>4, HandlerMoves DEF CreateSession
<1>2. ASSUME NEW c \in Sockets, NEW s \in Sessions, Reconnect(c, s)
      PROVE  HandlerInv' /\ WriterInv' /\ ServedInv'
  <2>1. CASE ms[s].attached
    BY <1>2, <2>1, TermRecords, HandlerMoves DEF Reconnect
  <2>2. CASE ~ms[s].attached
    <3>1. PICK h \in Handlers : h = [socket[c] EXCEPT !.pc = "info", !.session = s]
      BY <1>0, HandlerFields
    <3>2. /\ h.pc = "info" /\ h.session = s /\ h.got = socket[c].got /\ h.history = socket[c].history
      BY <1>0, <3>1 DEF Handlers
    <3>3. h.got = {} /\ h.history = {}
      BY <1>0, <1>2, <3>2 DEF HandlerInv, Reconnect
    <3> QED
      BY <1>2, <2>2, <3>1, <3>2, <3>3, HandlerMoves DEF Reconnect
  <2> QED
    BY <2>1, <2>2
<1>3. ASSUME NEW c \in Sockets, SendInfo(c) PROVE HandlerInv' /\ WriterInv' /\ ServedInv'
  <2>1. CASE socket' = [socket EXCEPT ![c] = Gone]
    BY <1>3, <2>1, TermRecords, HandlerMoves DEF SendInfo
  <2>2. CASE socket' = [socket EXCEPT ![c] = [socket[c] EXCEPT !.pc = "attach"]]
    <3>1. PICK h \in Handlers : h = [socket[c] EXCEPT !.pc = "attach"]
      BY <1>0, HandlerFields
    <3>2. /\ h.pc = "attach" /\ h.session = socket[c].session
          /\ h.got = socket[c].got /\ h.history = socket[c].history
      BY <1>0, <3>1 DEF Handlers
    <3>3. h.got = {} /\ h.history = {} /\ h.session \in Sessions
      BY <1>0, <1>3, <3>2 DEF HandlerInv, SendInfo
    <3> QED
      BY <1>3, <2>2, <3>1, <3>2, <3>3, HandlerMoves DEF SendInfo
  <2> QED
    BY <1>3, <2>1, <2>2 DEF SendInfo
<1>4. ASSUME NEW c \in Sockets, Leave(c) \/ SessionDone(c)
      PROVE  HandlerInv' /\ WriterInv' /\ ServedInv'
  <2>1. PICK h \in Handlers : h = [socket[c] EXCEPT !.pc = "detach"]
    BY <1>0, HandlerFields
  <2>2. h.pc = "detach" /\ h.session = socket[c].session
    BY <1>0, <2>1 DEF Handlers
  <2>3. h.session \in Sessions
    BY <1>0, <1>4, <2>2 DEF HandlerInv, Leave, SessionDone
  <2> QED
    BY <1>4, <2>1, <2>2, <2>3, HandlerMoves DEF Leave, SessionDone
<1>5. ASSUME NEW s \in Sessions,
             PumpEnds(s) \/ ShellExits(s) \/ CloseSession(s) \/ reapIdle(s) \/ CloseManaged(s)
      PROVE  HandlerInv' /\ WriterInv' /\ ServedInv'
  <2>1. \A t \in Sessions : /\ ms'[t].writer \in {ms[t].writer, Nobody}
                            /\ ms'[t].written = ms[t].written
    <3>1. CASE PumpEnds(s)
      BY <1>0, <3>1 DEF PumpEnds, ManagedSessions
    <3>2. CASE ShellExits(s)
      BY <1>0, <3>2 DEF ShellExits, ManagedSessions
    <3>3. CASE CloseManaged(s)
      BY <1>0, <3>3 DEF CloseManaged, ManagedSessions
    <3>4. CASE CloseSession(s) \/ reapIdle(s)
      BY <3>4 DEF CloseSession, reapIdle, RemoveSession
    <3> QED
      BY <1>5, <3>1, <3>2, <3>3, <3>4
  <2>2. socket' = socket /\ pump' = pump
    BY <1>5 DEF PumpEnds, ShellExits, CloseSession, reapIdle, RemoveSession, CloseManaged
  <2> QED
    BY <2>1, <2>2, SessionMoves
<1>6. CASE UNCHANGED termVars
  BY <1>6, SessionMoves DEF termVars
<1> QED
  BY <1>1, <1>2, <1>3, <1>4, <1>5, <1>6, AttachKeeps, ReplayKeeps, DetachKeeps, ReadKeeps, WriteKeeps
  DEF TermNext, HandlerStep, SessionStep

\* A client that is the writer of its session misses no output and gets none
\* twice, however attaching, the pump, detaching and the removal of sessions
\* interleave, for every length of the scrollback.
THEOREM NoOutputLost == TermSpec => []OutputOnce
<1>1. TermInit => TermInv
  <2> SUFFICES ASSUME TermInit PROVE TermInv
    OBVIOUS
  <2>1. /\ \A c \in Sockets : socket[c] = Outside
        /\ \A s \in Sessions : ms[s] = NoMS /\ pump[s] = Resting
    BY DEF TermInit
  <2>2. TermTypeOK
    BY TermRecords DEF TermInit, TermTypeOK
  <2>3. HandlerInv
    BY <2>1, TermRecords DEF HandlerInv
  <2>4. WriterInv
    BY <2>1, TermRecords DEF WriterInv, NoMS
  <2>5. ServedInv
    BY <2>1, TermRecords DEF ServedInv, Serves
  <2> QED
    BY <2>2, <2>3, <2>4, <2>5 DEF TermInv
<1>2. TermInv /\ [TermNext]_termVars => TermInv'
  BY TermTypeStep, ServedStep DEF TermInv
<1>3. TermInv => OutputOnce
  <2> SUFFICES ASSUME TermInv, NEW c \in Sockets, NEW s, s = socket[c].session, s # NoSession,
                      socket[c].pc \in {"replay", "relay"}, ms[s].writer = c
               PROVE  ServedOnce(c, s)
    BY DEF OutputOnce, ServedOnce, Live, Seen
  <2>1. s \in Sessions
    BY DEF TermInv, HandlerInv
  <2> QED
    BY <2>1 DEF TermInv, ServedInv, Serves
<1> QED
  BY <1>1, <1>2, <1>3, PTL DEF TermSpec
================================================================================
