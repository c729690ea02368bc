-------------------------------- MODULE MCPeople --------------------------------
(***************************************************************************)
(* Instances of the modules about those who work with the program: sign-in *)
(* and sessions of an account, and members of staff with their accounts.   *)
(* A behaviour follows one of the two, chosen at the start, while the      *)
(* other rests.                                                            *)
(***************************************************************************)
EXTENDS AuthSessions, StaffLinks

VARIABLE people   \* the module this behaviour follows

peopleVars == <<people, authVars, staffVars>>

PeopleInit ==
  /\ people \in {"sessions", "staff"}
  /\ AuthInit /\ StaffInit
  \* what rests has one initial state
  /\ people # "sessions" => account.first /\ account.tries = 0
  /\ people # "staff" => \A u \in Accounts : user[u].access = {}

PeopleNext ==
  \/ people = "sessions" /\ AuthNext /\ UNCHANGED <<people, staffVars>>
  \/ people = "staff" /\ StaffNext /\ UNCHANGED <<people, authVars>>

PeopleSpec == PeopleInit /\ [][PeopleNext]_peopleVars
=============================================================================
