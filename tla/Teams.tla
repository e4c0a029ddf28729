---------------------------------- MODULE Teams --------------------------------
(****************************************************************************)
(* Teams, memberships and who may use an instance: handlers/teams.go,       *)
(* internal/database/teams.go, the gates of middleware/auth.go, and the     *)
(* handlers that put an instance into a team.                               *)
(*                                                                          *)
(* Two pieces of code answer the question which instances a user has: the   *)
(* gate of each request (CanAccessInstance) and the list of instances       *)
(* (AccessibleInstanceIDs). They read the tables along different joins, and *)
(* no table refers to another with a foreign key. Who may make a request is *)
(* the matter of Accounts; here the requests come in any order.             *)
(****************************************************************************)
EXTENDS Naturals

CONSTANTS
  Members,    \* users without the global administrator role, at first
  TeamIds,
  TeamInsts,  \* instance ids
  Calls       \* requests of several steps that can be in progress together

VARIABLES
  teams,   \* the teams table
  used,    \* ids of teams that have been created
  member,  \* team_members: the role of each user in each team
  team,    \* the instances table: the team of each instance
  grants,  \* user_instances
  global,  \* users: the global role of each user
  call     \* the requests in progress

teamVars == <<teams, used, member, team, grants, global, call>>

NoTeam == "none"
Deleted == "deleted"
NoCall == [pc |-> "idle", team |-> NoTeam, inst |-> NoTeam]

CallRecords ==
  [pc : {"idle", "deleteTeam", "create", "move"}, team : TeamIds \cup {NoTeam},
   inst : TeamInsts \cup {NoTeam}]

TeamsTypeOK ==
  /\ teams \subseteq used /\ used \subseteq TeamIds
  /\ member \in [Members \X TeamIds -> {"", "user", "manager"}]
  /\ team \in [TeamInsts -> TeamIds \cup {NoTeam, Deleted}]
  /\ grants \subseteq Members \X TeamInsts
  /\ global \in [Members -> {"user", "admin", "deleted"}]
  /\ call \in [Calls -> CallRecords]

TeamsInit ==
  /\ teams = {} /\ used = {}
  /\ member = [p \in Members \X TeamIds |-> ""]
  /\ team = [i \in TeamInsts |-> NoTeam]
  /\ grants = {}
  /\ global = [u \in Members |-> "user"]
  /\ call = [q \in Calls |-> NoCall]

Has(i) == team[i] \in TeamIds
Done(q) == call' = [call EXCEPT ![q] = NoCall]

--------------------------------------------------------------------------------
(* What the two pieces of code answer.                                       *)

GetTeamRole(u, t) == member[<<u, t>>]

\* middleware.CanAccessInstance, for an instance whose row exists.
CanAccessInstance(u, i) ==
  \/ global[u] = "admin"
  \/ GetTeamRole(u, team[i]) = "manager"
  \/ GetTeamRole(u, team[i]) = "user" /\ <<u, i>> \in grants

\* Joined with the teams table.
GetUserTeams(u) == {t \in teams : member[<<u, t>>] # ""}

\* Seeded error: a grant counts in any team.
AccessibleInstanceIDs_AnyTeam(u) ==
  LET managed == {t \in GetUserTeams(u) : member[<<u, t>>] = "manager"}
      others == GetUserTeams(u) \ managed IN
  {i \in TeamInsts : Has(i) /\ (team[i] \in managed \/ (others # {} /\ <<u, i>> \in grants))}

AccessibleInstanceIDs(u) ==
  LET managed == {t \in GetUserTeams(u) : member[<<u, t>>] = "manager"}
      others == GetUserTeams(u) \ managed IN
  {i \in TeamInsts : Has(i) /\ (team[i] \in managed \/ (team[i] \in others /\ <<u, i>> \in grants))}

\* ListInstances: an administrator sees them all.
Listed(u) == IF global[u] = "admin" THEN {i \in TeamInsts : Has(i)} ELSE AccessibleInstanceIDs(u)

--------------------------------------------------------------------------------
(* Teams and memberships.                                                    *)

\* The ids of deleted teams are not used again.
CreateTeam(t) ==
  /\ t \notin used
  /\ teams' = teams \cup {t} /\ used' = used \cup {t}
  /\ UNCHANGED <<member, team, grants, global, call>>

\* The instances are counted before the transaction.
DeleteTeam(q, t) ==
  /\ call[q] = NoCall /\ t \in teams /\ \A i \in TeamInsts : team[i] # t
  /\ call' = [call EXCEPT ![q] = [pc |-> "deleteTeam", team |-> t, inst |-> NoTeam]]
  /\ UNCHANGED <<teams, used, member, team, grants, global>>

DeleteTeamCommits(q) ==
  LET t == call[q].team IN
  /\ call[q].pc = "deleteTeam"
  /\ member' = [p \in Members \X TeamIds |-> IF p[2] = t THEN "" ELSE member[p]]
  /\ teams' = teams \ {t}
  /\ Done(q)
  /\ UNCHANGED <<used, team, grants, global>>

\* Any team id and any user id are accepted; grants stay as they are.
SetTeamMember(t, u) ==
  /\ \E r \in {"", "user", "manager"} : member' = [member EXCEPT ![<<u, t>>] = r]
  /\ UNCHANGED <<teams, used, team, grants, global, call>>

\* The grants of a user are replaced, whatever teams the instances are in.
SetUserInstances(u) ==
  /\ \E s \in SUBSET TeamInsts :
       grants' = {g \in grants : g[1] # u} \cup ({u} \X s)
  /\ UNCHANGED <<teams, used, member, team, global, call>>

\* UpdateUserRole and DeleteUser, of which only the second takes rows along.
UserChanges(u) ==
  \/ /\ global[u] # "deleted"
     /\ \E r \in {"user", "admin"} : global' = [global EXCEPT ![u] = r]
     /\ UNCHANGED <<grants, teams, used, member, team, call>>
  \/ /\ global' = [global EXCEPT ![u] = "deleted"]
     /\ grants' = {g \in grants : g[1] # u}
     /\ UNCHANGED <<teams, used, member, team, call>>

--------------------------------------------------------------------------------
(* Instances: the team is looked up first and written later.                 *)

\* CreateInstance, and the reassignment by UpdateInstance.
TeamChosen(q, i, t) ==
  /\ call[q] = NoCall /\ t \in teams /\ team[i] \notin {t, Deleted}
  /\ call' = [call EXCEPT ![q] = [pc |-> IF Has(i) THEN "move" ELSE "create", team |-> t, inst |-> i]]
  /\ UNCHANGED <<teams, used, member, team, grants, global>>

\* The id of the new row is free; the update of a row that has gone changes
\* nothing.
TeamWritten(q) ==
  LET i == call[q].inst IN
  /\ call[q].pc \in {"create", "move"}
  /\ team' = [team EXCEPT ![i] =
       IF team[i] = NoTeam \/ (call[q].pc = "move" /\ Has(i)) THEN call[q].team ELSE @]
  /\ Done(q)
  /\ UNCHANGED <<teams, used, member, grants, global>>

\* The grants of the instance stay.
InstanceDeleted(i) ==
  /\ Has(i)
  /\ team' = [team EXCEPT ![i] = Deleted]
  /\ UNCHANGED <<teams, used, member, grants, global, call>>

--------------------------------------------------------------------------------
TeamsNext ==
  \/ \E t \in TeamIds : CreateTeam(t)
  \/ \E u \in Members :
       \/ \E t \in TeamIds : SetTeamMember(t, u)
       \/ SetUserInstances(u)
       \/ UserChanges(u)
  \/ \E i \in TeamInsts : InstanceDeleted(i)
  \/ \E q \in Calls :
       \/ \E t \in TeamIds : DeleteTeam(q, t) \/ \E i \in TeamInsts : TeamChosen(q, i, t)
       \/ DeleteTeamCommits(q) \/ TeamWritten(q)

TeamsSpec == TeamsInit /\ [][TeamsNext]_teamVars

--------------------------------------------------------------------------------
(* Properties.                                                               *)

\* The list and the gate agree: a user is shown exactly the instances whose
\* requests the gate lets through, although memberships and grants are changed
\* one by one and outlive each other. (Only for an instance whose team exists:
\* a team deleted while an instance moves into it leaves one that can have
\* members in the gate and none in the list.)
ListingMatchesGate ==
  \A u \in Members : \A i \in TeamInsts :
    global[u] # "deleted" /\ Has(i) /\ team[i] \in teams =>
      (CanAccessInstance(u, i) <=> i \in Listed(u))
================================================================================
