----------------------------- MODULE MCAccounts -----------------------------
(***************************************************************************)
(* Instances of the four components around accounts for TLC: sessions,     *)
(* role grants, administrators and stored files.  They share no variable,  *)
(* so one of them moves in a behaviour and the others stay as they began:  *)
(* their product would say no more.  For the same reason their calls, and  *)
(* their tokens and file names, may bear the same names.                   *)
(***************************************************************************)
EXTENDS Sessions, RoleGrants, Administrators, StoredFiles, TLC

VARIABLE part     \* the component that moves

accountVars == <<part, sessionsVars, grantsVars, adminVars, filesVars>>

Init ==
  /\ part \in {"sessions", "grants", "admins", "files"}
  /\ SessionsInit /\ GrantsInit /\ AdminInit /\ FilesInit
  /\ part = "grants" \/ \A c \in RoleCalls : request[c].at = CHOOSE s \in Processes : TRUE
  /\ part = "files" \/ picture = CHOOSE p \in Pictures : TRUE

Next ==
  /\ part' = part
  /\ \/ part = "sessions" /\ SessionsNext /\ UNCHANGED <<grantsVars, adminVars, filesVars>>
     \/ part = "grants" /\ GrantsNext /\ UNCHANGED <<sessionsVars, adminVars, filesVars>>
     \/ part = "admins" /\ AdminNext /\ UNCHANGED <<sessionsVars, grantsVars, filesVars>>
     \/ part = "files" /\ FilesNext /\ UNCHANGED <<sessionsVars, grantsVars, adminVars>>

Spec == Init /\ [][Next]_accountVars

(* The variables of each component hold what they are declared to hold. *)
TypeOK == SessionsTypeOK /\ GrantsTypeOK /\ AdminTypeOK /\ FilesTypeOK

(* No specification names a token, a file, a handler or an administrator. *)
Symmetry == Permutations(Tokens) \cup Permutations(AuthCalls) \cup Permutations(Admins)
=============================================================================
