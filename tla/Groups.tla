------------------------------- MODULE Groups -------------------------------
(***************************************************************************)
(* The members of one group conversation and their roles: the REST         *)
(* handlers of the groups service, which check a role, a count or a        *)
(* membership in one query and write in a later one, and the               *)
(* administrators' console, which writes to the same rows.                 *)
(*                                                                         *)
(* Grain.  One action is one query.  Transferring the ownership is one     *)
(* transaction and one action.  Left out: the title, the description and   *)
(* the picture, the audit trail and the broadcasts, which come after the   *)
(* write and decide nothing; and the deletion of a user, which takes the   *)
(* user's rows along.  That a user's chat is disabled is a choice of       *)
(* PickInvitable.                                                          *)
(***************************************************************************)
EXTENDS FiniteSets

CONSTANTS
  Users,
  NoUser,
  Calls,          \* bound: the handlers that run at the same time
  Ops             \* the operations they perform

Roles      == {"none", "MEMBER", "ADMIN", "OWNER"}
AdminRoles == {"ADMIN", "OWNER"}
AllOps     == {"add", "remove", "leave", "promote", "demote", "own", "transfer", "delete",
               "console_add", "console_remove", "console_delete"}
Console    == {"console_add", "console_remove", "console_delete"}
PCs        == {"idle", "meta", "member", "admins", "members", "target", "owner",
               "require", "write"}

ASSUME GroupsAssumption ==
  /\ Users # {} /\ IsFiniteSet(Users)
  /\ NoUser \notin Users
  /\ Ops \subseteq AllOps

VARIABLES
  role,           \* ConversationMember.role, "none" without a row
  owner,          \* Conversation.ownerUserId
  deleted,        \* Conversation.status is DELETED
  call            \* the handlers in flight and what they have read

vars == <<role, owner, deleted, call>>

(* A handler's snapshots: the actor's role, the target's role, the users   *)
(* counted as admins, the members, and ownerUserId.                        *)
CallRecord ==
  [pc: PCs, op: AllOps, actor: Users \cup {NoUser}, target: Users \cup {NoUser},
   mine: Roles \cup {"unread"}, theirs: Roles \cup {"unread"},
   admins: SUBSET (Users \cup {NoUser}), members: SUBSET (Users \cup {NoUser}),
   was: Users \cup {NoUser}]

TypeOK ==
  /\ role \in [Users -> Roles]
  /\ owner \in Users \cup {NoUser}
  /\ deleted \in BOOLEAN
  /\ call \in [Calls -> CallRecord]

(* A list of users the handler has not read. *)
NotRead == {NoUser}

(* A finished handler leaves nothing behind. *)
Idle ==
  [pc |-> "idle", op |-> "leave", actor |-> NoUser, target |-> NoUser, mine |-> "unread",
   theirs |-> "unread", admins |-> NotRead, members |-> NotRead, was |-> NoUser]

Admins  == {u \in Users : role[u] \in AdminRoles}
Members == {u \in Users : role[u] # "none"}

AtMostOne(S) == \A u, v \in S : u = v

(* A group a user made has its maker for owner; one made in the console    *)
(* has members only, and at least one.                                     *)
Init ==
  /\ owner \in Users \cup {NoUser}
  /\ \E M \in SUBSET Users :
       /\ owner = NoUser => M # {}
       /\ role = [u \in Users |-> IF u = owner THEN "OWNER"
                                  ELSE IF u \in M THEN "MEMBER" ELSE "none"]
  /\ deleted = FALSE
  /\ call = [c \in Calls |-> Idle]

-----------------------------------------------------------------------------
(* The checks. *)

Finish(c) == call' = [call EXCEPT ![c] = Idle]

(* Which query a handler starts with. *)
FirstQuery(op) == CASE op \in Console -> "require"
                    [] op = "leave" -> "member"
                    [] OTHER -> "meta"

Begin(c, op, a, t) ==
  /\ call[c].pc = "idle"
  /\ op \in {"leave", "delete"} \cup Console => t = a
  /\ op = "remove" => t # a
  /\ call' = [call EXCEPT ![c] = [Idle EXCEPT !.pc = FirstQuery(op), !.op = op,
                                              !.actor = a, !.target = t]]
  /\ UNCHANGED <<role, owner, deleted>>

(* Mutation: a deleted group is still found. *)
GetMeta_AnyStatus(c) ==
  /\ call[c].pc = "meta"
  /\ call' = [call EXCEPT ![c].pc = "member"]
  /\ UNCHANGED <<role, owner, deleted>>

(* The first query of assertGroupAdmin. *)
GetMeta(c) ==
  /\ call[c].pc = "meta"
  /\ IF deleted THEN Finish(c) ELSE call' = [call EXCEPT ![c].pc = "member"]
  /\ UNCHANGED <<role, owner, deleted>>

(* What a handler does once the actor's role is known. *)
AfterMember(op, r) == CASE op = "leave" -> IF r \in AdminRoles THEN "admins" ELSE "write"
                        [] op = "add" -> "members"
                        [] op = "own" -> "meta"
                        [] op = "demote" -> "admins"
                        [] op = "transfer" -> "target"
                        [] OTHER -> "write"

(* The second query of assertGroupAdmin, and the only one of leave.  The   *)
(* role endpoint checks twice when it makes somebody the owner.            *)
GetMembership(c) ==
  LET r == role[call[c].actor]
      op == call[c].op IN
  /\ call[c].pc = "member"
  /\ IF r \in AdminRoles \/ (op = "leave" /\ r # "none")
       THEN call' = [call EXCEPT ![c] =
                       [@ EXCEPT !.pc = AfterMember(op, r), !.mine = r,
                                 !.op = IF op = "own" THEN "transfer" ELSE op]]
       ELSE Finish(c)
  /\ UNCHANGED <<role, owner, deleted>>

(* groupAdminCount: a deleted group has none. *)
CountAdmins(c) ==
  LET A == IF deleted THEN {} ELSE Admins
      next == IF call[c].op = "demote" THEN "target"
              ELSE IF AtMostOne(A) THEN "members" ELSE "write" IN
  /\ call[c].pc = "admins"
  /\ call' = [call EXCEPT ![c] = [@ EXCEPT !.pc = next, !.admins = A]]
  /\ UNCHANGED <<role, owner, deleted>>

(* memberUserIds: the last admin may only leave a group of one. *)
LastLeaves(c) ==
  /\ call[c].pc = "members" /\ call[c].op = "leave"
  /\ IF AtMostOne(Members)
       THEN call' = [call EXCEPT ![c] = [@ EXCEPT !.pc = "write", !.members = Members]]
       ELSE Finish(c)
  /\ UNCHANGED <<role, owner, deleted>>

(* Nobody is added twice, and nobody whose chat is disabled. *)
PickInvitable(c) ==
  /\ call[c].pc = "members" /\ call[c].op = "add"
  /\ \/ Finish(c)
     \/ call[c].target \notin Members /\ call' = [call EXCEPT ![c].pc = "write"]
  /\ UNCHANGED <<role, owner, deleted>>

(* Mutation: the last admin may be demoted. *)
GetTarget_AnyAdmin(c) ==
  LET r == role[call[c].target] IN
  /\ call[c].pc = "target"
  /\ IF r = "none" \/ (call[c].op = "demote" /\ r = "OWNER")
       THEN Finish(c)
       ELSE call' = [call EXCEPT ![c] =
                       [@ EXCEPT !.theirs = r,
                                 !.pc = IF call[c].op = "demote" THEN "write" ELSE "owner"]]
  /\ UNCHANGED <<role, owner, deleted>>

(* The target's membership, for a demotion or a transfer. *)
GetTarget(c) ==
  LET r == role[call[c].target] IN
  /\ call[c].pc = "target"
  /\ IF \/ r = "none"
        \/ call[c].op = "demote" /\ r = "OWNER"
        \/ call[c].op = "demote" /\ r = "ADMIN" /\ AtMostOne(call[c].admins)
       THEN Finish(c)
       ELSE call' = [call EXCEPT ![c] =
                       [@ EXCEPT !.theirs = r,
                                 !.pc = IF call[c].op = "demote" THEN "write" ELSE "owner"]]
  /\ UNCHANGED <<role, owner, deleted>>

(* findById: the owner to be replaced. *)
FindOwner(c) ==
  /\ call[c].pc = "owner"
  /\ IF deleted \/ (call[c].theirs = "OWNER" /\ owner = call[c].target)
       THEN Finish(c)
       ELSE call' = [call EXCEPT ![c] = [@ EXCEPT !.pc = "write", !.was = owner]]
  /\ UNCHANGED <<role, owner, deleted>>

(* The only check of the console. *)
Require(c) ==
  /\ call[c].pc = "require"
  /\ IF deleted THEN Finish(c) ELSE call' = [call EXCEPT ![c].pc = "write"]
  /\ UNCHANGED <<role, owner, deleted>>

-----------------------------------------------------------------------------
(* The writes. *)

Writes(c, ops) ==
  /\ call[c].pc = "write" /\ call[c].op \in ops
  /\ Finish(c)

(* createMany with skipDuplicates. *)
AddMembers(c) ==
  /\ Writes(c, {"add", "console_add"})
  /\ role' = [role EXCEPT ![call[c].target] = IF @ = "none" THEN "MEMBER" ELSE @]
  /\ UNCHANGED <<owner, deleted>>

RemoveMember(c) ==
  /\ Writes(c, {"remove", "leave", "console_remove"})
  /\ role' = [role EXCEPT ![call[c].target] = "none"]
  /\ UNCHANGED <<owner, deleted>>

(* Mutation: the role is written whether or not the row is still there. *)
SetMemberRole_Upsert(c) ==
  /\ Writes(c, {"promote", "demote"})
  /\ role' = [role EXCEPT ![call[c].target] = IF call[c].op = "promote" THEN "ADMIN" ELSE "MEMBER"]
  /\ UNCHANGED <<owner, deleted>>

(* The update of a row that is gone throws. *)
SetMemberRole(c) ==
  LET r == IF call[c].op = "promote" THEN "ADMIN" ELSE "MEMBER" IN
  /\ Writes(c, {"promote", "demote"})
  /\ role' = [role EXCEPT ![call[c].target] = IF @ = "none" THEN @ ELSE r]
  /\ UNCHANGED <<owner, deleted>>

(* Mutation: the previous owner is not demoted. *)
TransferOwnership_Keeps(c) ==
  LET t == call[c].target IN
  /\ Writes(c, {"transfer"})
  /\ \/ /\ role[t] = "none"
        /\ UNCHANGED <<role, owner>>
     \/ /\ role[t] # "none"
        /\ role' = [role EXCEPT ![t] = "OWNER"]
        /\ owner' = t
  /\ UNCHANGED deleted

(* The transaction demotes the owner the handler read, if that is what the *)
(* user still is; it fails as a whole when the new owner has left.         *)
TransferOwnership(c) ==
  LET t == call[c].target IN
  /\ Writes(c, {"transfer"})
  /\ \/ /\ role[t] = "none"
        /\ UNCHANGED <<role, owner>>
     \/ /\ role[t] # "none"
        /\ role' = [u \in Users |->
                      IF u = t THEN "OWNER"
                      ELSE IF u = call[c].was /\ role[u] = "OWNER" THEN "ADMIN"
                      ELSE role[u]]
        /\ owner' = t
  /\ UNCHANGED deleted

Delete(c) ==
  /\ Writes(c, {"delete", "console_delete"})
  /\ deleted' = TRUE
  /\ UNCHANGED <<role, owner>>

(* A query rejects, or the process dies. *)
Abandon(c) ==
  /\ call[c].pc # "idle"
  /\ Finish(c)
  /\ UNCHANGED <<role, owner, deleted>>

Check(c) == \/ GetMeta(c) \/ GetMembership(c) \/ CountAdmins(c) \/ LastLeaves(c)
            \/ PickInvitable(c) \/ GetTarget(c) \/ FindOwner(c) \/ Require(c)

Write(c) == \/ AddMembers(c) \/ RemoveMember(c) \/ SetMemberRole(c)
            \/ TransferOwnership(c) \/ Delete(c)

Next ==
  \E c \in Calls :
    \/ \E op \in Ops, a, t \in Users : Begin(c, op, a, t)
    \/ Check(c) \/ Write(c) \/ Abandon(c)

Spec == Init /\ [][Next]_vars
-----------------------------------------------------------------------------
(* Properties. *)

(* Somebody can manage the group, or nobody is in it. *)
Governed == Members = {} \/ Admins # {}

(* What a handler about to write has read is no longer so. *)
Stale(c) ==
  \/ call[c].mine \notin {"unread", role[call[c].actor]}
  \/ call[c].theirs \notin {"unread", role[call[c].target]}
  \/ call[c].admins \notin {NotRead, Admins}
  \/ call[c].members \notin {NotRead, Members}

(* A group loses its last admin only by the console, or by a handler that  *)
(* somebody overtook between its checks and its write: taken one after the *)
(* other, no sequence of leaves, removals, demotions and transfers does.   *)
LastAdminKept ==
  [][Governed /\ ~Governed' =>
       \E c \in Calls : /\ call[c].pc = "write" /\ call'[c].pc = "idle"
                        /\ call[c].op \in Console \/ Stale(c)]_vars

(* The rows agree on who the owner is: at most one member has the role,    *)
(* and it is the user in ownerUserId.                                      *)
OneOwner == \A u \in Users : role[u] = "OWNER" => owner = u

(* Two owners can only come of two transfers that both read the same one.  *)
OneOwnerKept ==
  [][OneOwner /\ ~OneOwner' =>
       \E c \in Calls : /\ call[c].pc = "write" /\ call'[c].pc = "idle"
                        /\ call[c].op = "transfer" /\ call[c].was # owner]_vars

(* Who has left the group comes back by being added, as a plain member: no *)
(* promotion or transfer still in flight brings a user back.               *)
ReturnsAsMember ==
  [][\A u \in Users : role[u] = "none" /\ role'[u] # "none" =>
       /\ role'[u] = "MEMBER"
       /\ \E c \in Calls : /\ call[c].pc = "write" /\ call'[c].pc = "idle"
                           /\ call[c].op \in {"add", "console_add"}
                           /\ call[c].target = u]_vars

(* The group is deleted and every handler that found it before is done. *)
Settled ==
  deleted /\ \A c \in Calls : call[c].op = "leave" \/ call[c].pc \in {"idle", "meta", "require"}

(* From then on it stays as it is, but that members may leave. *)
DeletedIsFrozen ==
  [][Settled =>
       /\ Settled' /\ owner' = owner
       /\ \A u \in Users :
            \/ role'[u] = role[u]
            \/ /\ role'[u] = "none"
               /\ \E c \in Calls : call[c].op = "leave" /\ call[c].actor = u]_vars

(* What the error of a leaving admin and the tests say, and the code does  *)
(* not keep when two admins go at the same time.                           *)
StaysGoverned == [][Governed => Governed']_vars
=============================================================================
