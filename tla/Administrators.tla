--------------------------- MODULE Administrators ---------------------------
(***************************************************************************)
(* The console's accounts: which administrators there are, the role each   *)
(* has, the roles that exist, and the invitations that make accounts.      *)
(*                                                                         *)
(* Grain.  One action is one query, but for the two that begin a handler   *)
(* whose insert checks again what they found.  Left out: names and         *)
(* passwords, the permission each route requires (RoleGrants has the       *)
(* guard), the mails, and the links of an invitation: a resent one         *)
(* replaces the link only.                                                 *)
(***************************************************************************)
EXTENDS Naturals, FiniteSets

CONSTANTS
  Admins,         \* the addresses that have, or may get, an account
  Roles, Super, Member,
  NoAdmin, NoRole, NoInvite,
  AdminCalls      \* bound: the handlers that run at the same time

ASSUME AdministratorsAssumption ==
  /\ Super \in Roles /\ Member \in Roles /\ Super # Member
  /\ NoAdmin \notin Admins /\ NoRole \notin Roles /\ NoInvite \notin Roles /\ NoRole # NoInvite

VARIABLES
  roleOf,         \* the role of an account, NoRole without one
  roles,          \* the roles that have a row
  invite,         \* the role an invitation names: NoRole when it was deleted since
  job             \* the handlers in flight and what they have read

adminVars == <<roleOf, roles, invite, job>>

AdminPCs == {"idle", "insert", "tidy", "upsert", "accept", "clean", "settle",
             "count", "assign", "delete", "erase"}

(* role: the one to be given, or removed; seen: the target's role when it  *)
(* was found; supers: the super administrators counted, Admins uncounted.  *)
AdminJob == [pc: AdminPCs, target: Admins \cup {NoAdmin}, role: Roles \cup {NoRole},
             seen: Roles \cup {NoRole}, supers: (SUBSET Admins) \cup {{NoRole}}]

AdminTypeOK ==
  /\ roleOf \in [Admins -> Roles \cup {NoRole}]
  /\ roles \subseteq Roles
  /\ invite \in [Admins -> Roles \cup {NoRole, NoInvite}]
  /\ job \in [AdminCalls -> AdminJob]

Uncounted == {NoRole}
NoJob(a)  == [pc |-> "idle", target |-> a, role |-> NoRole, seen |-> NoRole, supers |-> Uncounted]

Supers == {a \in Admins : roleOf[a] = Super}
Holders(r) == {a \in Admins : roleOf[a] = r}

AdminInit ==
  /\ \E a \in Admins : roleOf = [b \in Admins |-> IF b = a THEN Super ELSE NoRole]
  /\ job = [c \in AdminCalls |-> NoJob(NoAdmin)]
  /\ roles = {Super, Member}
  /\ invite = [a \in Admins |-> NoInvite]

AdminGoto(c, pc) == job' = [job EXCEPT ![c].pc = pc]
AdminDone(c)     == job' = [job EXCEPT ![c] = NoJob(NoAdmin)]

AdminBegin(c, pc, a, r) ==
  /\ job[c].pc = "idle"
  /\ job' = [job EXCEPT ![c] = [NoJob(a) EXCEPT !.pc = pc, !.role = r]]

-----------------------------------------------------------------------------
(* Accounts and invitations. *)

(* create and createInvite: no account has the address, and the role       *)
(* exists, or is Member because none was asked for.                        *)
CreateAccount(c, a, r) ==
  /\ roleOf[a] = NoRole /\ r \in roles \cup {Member}
  /\ \E pc \in {"insert", "upsert"} : AdminBegin(c, pc, a, r)
  /\ UNCHANGED <<roleOf, roles, invite>>

(* The address is unique, and the role must exist. *)
InsertAdmin(c) ==
  LET a == job[c].target
      r == job[c].role IN
  /\ job[c].pc \in {"insert", "accept"}
  /\ IF roleOf[a] = NoRole /\ r \in roles
       THEN /\ roleOf' = [roleOf EXCEPT ![a] = r]
            /\ AdminGoto(c, IF job[c].pc = "insert" THEN "tidy" ELSE "settle")
       ELSE UNCHANGED roleOf /\ AdminDone(c)
  /\ UNCHANGED <<roles, invite>>

UpsertAdminInvite(c) ==
  /\ job[c].pc = "upsert"
  /\ invite' = IF job[c].role \in roles THEN [invite EXCEPT ![job[c].target] = job[c].role]
               ELSE invite
  /\ AdminDone(c)
  /\ UNCHANGED <<roleOf, roles>>

(* requireValidInvite; an invitation whose role was deleted makes a Member, *)
(* and one whose address has an account by now is cleaned up.              *)
AcceptAdminInvite(c, a) ==
  /\ invite[a] # NoInvite
  /\ AdminBegin(c, IF roleOf[a] = NoRole THEN "accept" ELSE "clean", a,
                IF invite[a] = NoRole THEN Member ELSE invite[a])
  /\ UNCHANGED <<roleOf, roles, invite>>

(* create deletes what invitation the address has, acceptInvite the one it *)
(* found: one that was made anew since stays.                              *)
DropInvite(c) ==
  /\ job[c].pc \in {"tidy", "clean", "settle"}
  /\ \/ invite' = [invite EXCEPT ![job[c].target] = NoInvite]
     \/ job[c].pc # "tidy" /\ UNCHANGED invite
  /\ AdminDone(c)
  /\ UNCHANGED <<roleOf, roles>>

RevokeAdminInvite(a) ==
  /\ invite[a] # NoInvite
  /\ invite' = [invite EXCEPT ![a] = NoInvite]
  /\ UNCHANGED <<roleOf, roles, job>>

-----------------------------------------------------------------------------
(* Changing a role and deleting an account. *)

(* assignRole and update: a super administrator who is to get another role *)
(* is counted first.                                                       *)
AssignRole(c, a, r) ==
  LET seen == roleOf[a] IN
  /\ job[c].pc = "idle" /\ seen # NoRole
  /\ job' = [job EXCEPT ![c] =
               [NoJob(a) EXCEPT !.pc = IF seen = Super /\ r # Super THEN "count" ELSE "assign",
                                !.role = r, !.seen = seen]]
  /\ UNCHANGED <<roleOf, roles, invite>>

(* Nobody deletes the own account: the actor is another one. *)
DeleteAccount(c, a) ==
  LET seen == roleOf[a] IN
  /\ job[c].pc = "idle" /\ seen # NoRole
  /\ job' = [job EXCEPT ![c] =
               [NoJob(a) EXCEPT !.pc = IF seen = Super THEN "count" ELSE "delete", !.seen = seen]]
  /\ UNCHANGED <<roleOf, roles, invite>>

(* Mutation: the last one is let go. *)
CountSupers_None(c) ==
  /\ job[c].pc = "count"
  /\ job' = [job EXCEPT ![c] = [@ EXCEPT !.supers = Supers,
                                         !.pc = IF job[c].role = NoRole THEN "delete" ELSE "assign"]]
  /\ UNCHANGED <<roleOf, roles, invite>>

(* countByRoleRecord: the last one is refused. *)
CountSupers(c) ==
  /\ job[c].pc = "count"
  /\ IF Cardinality(Supers) <= 1 THEN AdminDone(c)
     ELSE job' = [job EXCEPT ![c] =
                    [@ EXCEPT !.supers = Supers,
                              !.pc = IF job[c].role = NoRole THEN "delete" ELSE "assign"]]
  /\ UNCHANGED <<roleOf, roles, invite>>

(* assignRoleInternal: the update of an account that is gone throws, and   *)
(* so does one to a role that does not exist.                              *)
WriteAssignment(c) ==
  LET a == job[c].target
      r == job[c].role IN
  /\ job[c].pc = "assign"
  /\ roleOf' = IF roleOf[a] # NoRole /\ r \in roles THEN [roleOf EXCEPT ![a] = r] ELSE roleOf
  /\ AdminDone(c)
  /\ UNCHANGED <<roles, invite>>

EraseAccount(c) ==
  /\ job[c].pc = "delete"
  /\ roleOf' = [roleOf EXCEPT ![job[c].target] = NoRole]
  /\ AdminDone(c)
  /\ UNCHANGED <<roles, invite>>

-----------------------------------------------------------------------------
(* Roles. *)

(* A role has an id of its own. *)
CreateRole(r) ==
  /\ r \notin {Super, Member} /\ r \notin roles
  /\ \A c \in AdminCalls : job[c].role # r
  /\ roles' = roles \cup {r}
  /\ UNCHANGED <<roleOf, invite, job>>

(* The seed keeps Super locked, and not Member. *)
DeleteRole(c, r) ==
  /\ r # Super /\ r \in roles /\ Holders(r) = {}
  /\ AdminBegin(c, "erase", NoAdmin, r)
  /\ UNCHANGED <<roleOf, roles, invite>>

(* The database refuses while an account has the role, and takes the role  *)
(* out of the invitations that name it.                                    *)
DropRole(c) ==
  LET r == job[c].role IN
  /\ job[c].pc = "erase"
  /\ IF Holders(r) = {}
       THEN /\ roles' = roles \ {r}
            /\ invite' = [a \in Admins |-> IF invite[a] = r THEN NoRole ELSE invite[a]]
       ELSE UNCHANGED <<roles, invite>>
  /\ AdminDone(c)
  /\ UNCHANGED roleOf

(* A process starts: the two roles of the seed exist, and somebody who can *)
(* sign in.                                                                *)
Boot(a) ==
  /\ roles' = roles \cup {Super, Member}
  /\ roleOf' = IF \A b \in Admins : roleOf[b] = NoRole THEN [roleOf EXCEPT ![a] = Super] ELSE roleOf
  /\ UNCHANGED <<invite, job>>

AdminAbandon(c) ==
  /\ job[c].pc # "idle"
  /\ AdminDone(c)
  /\ UNCHANGED <<roleOf, roles, invite>>

AccountStep(c) == \/ InsertAdmin(c) \/ UpsertAdminInvite(c) \/ DropInvite(c)
                  \/ CountSupers(c) \/ WriteAssignment(c) \/ EraseAccount(c)

AdminNext ==
  \/ \E c \in AdminCalls : AccountStep(c) \/ DropRole(c) \/ AdminAbandon(c)
  \/ \E c \in AdminCalls, a \in Admins, r \in Roles : CreateAccount(c, a, r) \/ AssignRole(c, a, r)
  \/ \E c \in AdminCalls, a \in Admins : AcceptAdminInvite(c, a) \/ DeleteAccount(c, a)
  \/ \E a \in Admins : RevokeAdminInvite(a) \/ Boot(a)
  \/ \E c \in AdminCalls, r \in Roles : DeleteRole(c, r)
  \/ \E r \in Roles : CreateRole(r)

AdminSpec == AdminInit /\ [][AdminNext]_adminVars
-----------------------------------------------------------------------------
(* Properties. *)

(* The handler about to write was overtaken: its target got another role,  *)
(* or the super administrators it counted are not those there are.         *)
Overtaken(c) ==
  \/ job[c].seen # roleOf[job[c].target]
  \/ job[c].supers \notin {Uncounted, Supers}

(* The console loses its last super administrator only by a handler that   *)
(* somebody overtook between its checks and its write; taken one after the *)
(* other, no sequence of demotions and deletions does.                     *)
LastSuperKept ==
  [][Supers # {} /\ Supers' = {} =>
       \E c \in AdminCalls : /\ job[c].pc \in {"assign", "delete"} /\ job'[c].pc = "idle"
                             /\ Overtaken(c)]_adminVars
=============================================================================
