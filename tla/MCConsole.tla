------------------------------- MODULE MCConsole -------------------------------
(****************************************************************************)
(* Model checking of what the web console keeps of its own: the kanban      *)
(* board with its moderator, the accounts, the teams and the providers.     *)
(*                                                                          *)
(* Each has its own tables, and no step of one reads what another writes    *)
(* (Teams keeps its own copy of the global roles), so that one run checks   *)
(* the four: a behaviour picks one of them and the others rest, with none   *)
(* of their fair actions enabled.                                           *)
(****************************************************************************)
EXTENDS Moderator, Accounts, Teams, Providers

VARIABLE part

all == <<modVars, accountVars, teamVars, provVars, part>>

ConsoleInit ==
  /\ part \in {"moderator", "accounts", "teams", "providers"}
  /\ ModInit /\ AccountsInit /\ TeamsInit /\ ProvidersInit

ConsoleNext ==
  /\ \/ part = "moderator" /\ ModNext /\ UNCHANGED <<accountVars, teamVars, provVars>>
     \/ part = "accounts" /\ AccountsNext /\ UNCHANGED <<modVars, teamVars, provVars>>
     \/ part = "teams" /\ TeamsNext /\ UNCHANGED <<modVars, accountVars, provVars>>
     \/ part = "providers" /\ ProvidersNext /\ UNCHANGED <<modVars, accountVars, teamVars>>
  /\ UNCHANGED part

ConsoleSpec == ConsoleInit /\ [][ConsoleNext]_all /\ ModFairness
================================================================================
