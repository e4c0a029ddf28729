-------------------------------- MODULE Accounts -------------------------------
(****************************************************************************)
(* User accounts and login sessions: handlers/auth.go, handlers/users.go,   *)
(* middleware/auth.go and internal/auth.                                    *)
(*                                                                          *)
(* Sessions live in memory, users in the database, and no lock spans the    *)
(* two: a handler is authorised first and acts later, a login checks the    *)
(* password first and opens its session later, and a change of password     *)
(* writes the row first and removes the sessions later. A password is the   *)
(* number of times it was changed. Requests that are refused or only read   *)
(* change nothing and are left out, as are logging in with a passkey, which *)
(* opens a session the way a password does, and the mode without            *)
(* authentication.                                                          *)
(****************************************************************************)
EXTENDS Naturals, FiniteSets

CONSTANTS
  Users,        \* user ids; never used twice
  Cookies,      \* session ids
  MaxRequests,  \* bound on requests in progress
  MaxPasswords  \* bound on the changes of one user's password

Nobody == "nobody"

ASSUME AccountsAssumption ==
  /\ Nobody \notin Users \cup Cookies
  /\ MaxRequests \in Nat /\ MaxPasswords \in Nat

VARIABLES
  role,      \* the users table: absent, user, admin, or deleted
  password,  \* the password of each user
  store,     \* SessionStore: the session of each cookie
  requests,  \* the requests in progress, by what they have read
  crossed    \* history: an administrator's request took effect when the
             \* caller was no longer an administrator

accountVars == <<role, password, store, requests, crossed>>

NoSession == [user |-> Nobody, password |-> 0, late |-> FALSE]

Exists(u) == role[u] \in {"user", "admin"}

Sessions == [user : Users, password : 0..MaxPasswords, late : BOOLEAN]

UserRequests ==
       [pc : {"setup"}, n : 1..MaxRequests]
  \cup [pc : {"open"}, user : Users, password : 0..MaxPasswords]
  \cup [pc : {"delete", "role", "reset"}, user : Users, by : Users]
  \cup [pc : {"revoke"}, user : Users]
  \cup [pc : {"change"}, cookie : Cookies, user : Users]
  \cup [pc : {"revokeOthers"}, cookie : Cookies, user : Users, password : 0..MaxPasswords]

AccountsTypeOK ==
  /\ role \in [Users -> {"absent", "user", "admin", "deleted"}]
  /\ password \in [Users -> 0..MaxPasswords]
  /\ store \in [Cookies -> Sessions \cup {NoSession}]
  /\ requests \subseteq UserRequests /\ Cardinality(requests) <= MaxRequests
  /\ crossed \in BOOLEAN

AccountsInit ==
  /\ role = [u \in Users |-> "absent"]
  /\ password = [u \in Users |-> 0]
  /\ store = [c \in Cookies |-> NoSession]
  /\ requests = {}
  /\ crossed = FALSE

Arrives(q) == Cardinality(requests) < MaxRequests /\ requests' = requests \cup {q}
GoesOn(q, p) == requests' = (requests \ {q}) \cup {p}
Answer(q) == requests' = requests \ {q}

\* Requests that are the same in all they have read are one, but for the
\* first, of which several may find the table empty.
Setup(n) == [pc |-> "setup", n |-> n]
Opening(u, p) == [pc |-> "open", user |-> u, password |-> p]
Admin(call, u, by) == [pc |-> call, user |-> u, by |-> by]
Revoking(u) == [pc |-> "revoke", user |-> u]
Changing(c) == [pc |-> "change", cookie |-> c, user |-> store[c].user]
RevokingOthers(q, p) == [pc |-> "revokeOthers", cookie |-> q.cookie, user |-> q.user, password |-> p]

InState(pc) == {q \in requests : q.pc = pc}

--------------------------------------------------------------------------------
(* Logging in.                                                               *)

\* A new row gets the next id.
NewUser == CHOOSE u \in Users : role[u] = "absent"
CanCreate == \E u \in Users : role[u] = "absent"

\* The first administrator: only while the table is empty, as counted here.
SetupCreateAdmin ==
  /\ \A u \in Users : ~Exists(u)
  /\ \E n \in 1..MaxRequests : Arrives(Setup(n))
  /\ UNCHANGED <<role, password, store, crossed>>

SetupInserts ==
  \E q \in InState("setup") :
    /\ CanCreate
    /\ role' = [role EXCEPT ![NewUser] = "admin"]
    /\ GoesOn(q, Opening(NewUser, 0))
    /\ UNCHANGED <<password, store, crossed>>

\* The row is read and the password checked against it.
Login(u) ==
  /\ Exists(u)
  /\ Arrives(Opening(u, password[u]))
  /\ UNCHANGED <<role, password, store, crossed>>

\* SessionStore.Create with a fresh cookie, whatever has become of the user.
OpenSession ==
  \E q \in InState("open") :
    /\ \E c \in Cookies : store[c] = NoSession
    /\ store' = [store EXCEPT ![CHOOSE c \in Cookies : store[c] = NoSession] =
         [user |-> q.user, password |-> q.password,
          late |-> q.password # password[q.user] \/ ~Exists(q.user)]]
    /\ Answer(q)
    /\ UNCHANGED <<role, password, crossed>>

\* Logout deletes the session; Get refuses an expired one and Cleanup deletes it.
SessionEnds(c) ==
  /\ store[c] # NoSession
  /\ store' = [store EXCEPT ![c] = NoSession]
  /\ UNCHANGED <<role, password, requests, crossed>>

--------------------------------------------------------------------------------
(* Requests with a session. RequireAuth reads the session and the user, and  *)
(* RequireAdmin the role; the handler works with what they read.             *)

RequireAuth(c) == store[c] # NoSession /\ Exists(store[c].user)
RequireAdmin(c) == RequireAuth(c) /\ role[store[c].user] = "admin"

\* An administrator's request about user u.
Authorized(c, call, u) ==
  /\ RequireAdmin(c) /\ Exists(u)
  /\ Arrives(Admin(call, u, store[c].user))
  /\ UNCHANGED <<role, password, store, crossed>>

\* The request takes effect, and its caller may have lost the role.
Crosses(q) == crossed' = (crossed \/ role[q.by] # "admin")

\* Creating a user does nothing to the others.
CreateUser(c) ==
  /\ RequireAdmin(c) /\ CanCreate
  /\ \E r \in {"user", "admin"} : role' = [role EXCEPT ![NewUser] = r]
  /\ UNCHANGED <<password, store, requests, crossed>>

\* The user's sessions go after the row.
DeleteUser ==
  \E q \in InState("delete") :
    /\ IF q.by = q.user
       THEN Answer(q) /\ UNCHANGED <<role, crossed>>
       ELSE /\ role' = [role EXCEPT ![q.user] = "deleted"]
            /\ Crosses(q)
            /\ GoesOn(q, Revoking(q.user))
    /\ UNCHANGED <<password, store>>

\* Seeded error: nothing keeps a caller from giving up the role.
UpdateUserRole_Anyone ==
  \E q \in InState("role"), r \in {"user", "admin"} :
    /\ role' = [role EXCEPT ![q.user] = IF Exists(q.user) THEN r ELSE @]
    /\ Crosses(q)
    /\ Answer(q)
    /\ UNCHANGED <<password, store>>

UpdateUserRole ==
  \E q \in InState("role"), r \in {"user", "admin"} :
    /\ IF q.by = q.user /\ r # "admin"
       THEN UNCHANGED <<role, crossed>>
       ELSE /\ role' = [role EXCEPT ![q.user] = IF Exists(q.user) THEN r ELSE @]
            /\ Crosses(q)
    /\ Answer(q)
    /\ UNCHANGED <<password, store>>

\* UpdateUserPassword; no row, no effect.
NewPassword(u) ==
  /\ password[u] < MaxPasswords
  /\ password' = [password EXCEPT ![u] = IF Exists(u) THEN @ + 1 ELSE @]

WithoutSessionsOf(u, kept) ==
  [c \in Cookies |-> IF store[c].user = u /\ c # kept THEN NoSession ELSE store[c]]

\* Seeded error: the sessions go before the password.
ResetUserPassword_SessionsFirst ==
  \/ \E q \in InState("reset") :
       /\ store' = WithoutSessionsOf(q.user, Nobody)
       /\ GoesOn(q, [q EXCEPT !.pc = "resetting"])
       /\ UNCHANGED <<role, password, crossed>>
  \/ \E q \in InState("resetting") :
       /\ NewPassword(q.user)
       /\ Answer(q)
       /\ UNCHANGED <<role, store, crossed>>

\* An administrator sets the password; the sessions go next.
ResetUserPassword ==
  \E q \in InState("reset") :
    /\ NewPassword(q.user)
    /\ GoesOn(q, Revoking(q.user))
    /\ UNCHANGED <<role, store, crossed>>

\* DeleteByUserID.
Revoke ==
  \E q \in InState("revoke") :
    /\ store' = WithoutSessionsOf(q.user, Nobody)
    /\ Answer(q)
    /\ UNCHANGED <<role, password, crossed>>

\* The caller's own password: the current one is checked against the row.
ChangePassword(c) ==
  /\ RequireAuth(c)
  /\ Arrives(Changing(c))
  /\ UNCHANGED <<role, password, store, crossed>>

ChangeWritten ==
  \E q \in InState("change") :
    /\ NewPassword(q.user)
    /\ GoesOn(q, RevokingOthers(q, password'[q.user]))
    /\ UNCHANGED <<role, store, crossed>>

\* A session that has seen two changes stands for the later one.
Later(p, q) == IF p < q THEN q ELSE p

\* DeleteByUserIDExcept: the caller's session stays, and from now on stands
\* for the password that was set.
RevokeOthers ==
  \E q \in InState("revokeOthers") :
    /\ store' = [c \in Cookies |->
         IF c = q.cookie /\ store[c].user = q.user
         THEN [store[c] EXCEPT !.password = Later(store[c].password, q.password)]
         ELSE WithoutSessionsOf(q.user, q.cookie)[c]]
    /\ Answer(q)
    /\ UNCHANGED <<role, password, crossed>>

--------------------------------------------------------------------------------
\* The process restarts: the sessions were in memory only.
SessionsLost ==
  /\ store' = [c \in Cookies |-> NoSession]
  /\ requests' = {}
  /\ UNCHANGED <<role, password, crossed>>

AccountsNext ==
  \/ SetupCreateAdmin \/ SetupInserts \/ OpenSession
  \/ \E u \in Users : Login(u)
  \/ \E c \in Cookies :
       \/ SessionEnds(c) \/ CreateUser(c) \/ ChangePassword(c)
       \/ \E call \in {"delete", "role", "reset"}, u \in Users : Authorized(c, call, u)
  \/ DeleteUser \/ UpdateUserRole \/ ResetUserPassword \/ Revoke
  \/ ChangeWritten \/ RevokeOthers
  \/ SessionsLost

AccountsSpec == AccountsInit /\ [][AccountsNext]_accountVars

--------------------------------------------------------------------------------
(* Properties.                                                               *)

\* Once a change of password, a reset or a deletion has been answered, no
\* session is left that was open before it, but for the caller's own: the
\* row is written before the sessions go, so that a login that reads the old
\* password in between loses its session too. A login that had checked the
\* password and opens its session only after all of that ("late") escapes.
SessionsRevoked ==
  \A c \in Cookies :
    LET s == store[c] IN
    s # NoSession /\ ~s.late
      /\ (\A q \in InState("revoke") \cup InState("revokeOthers") : q.user # s.user)
    => Exists(s.user) /\ s.password = password[s.user]

\* Once there has been a user there is an administrator, since nobody can
\* demote or delete himself: unless two administrators' requests crossed.
AdminRemains ==
  ~crossed /\ (\E u \in Users : role[u] # "absent") => \E u \in Users : role[u] = "admin"
================================================================================
