---------------------------- MODULE GroupsProofs ----------------------------
(***************************************************************************)
(* Theorems about Groups, for any users, any operations and any number of  *)
(* handlers at the same time.                                              *)
(***************************************************************************)
EXTENDS Groups, TLAPS

-----------------------------------------------------------------------------
(* The inductive invariant: what a handler's record is worth at each of    *)
(* its queries.                                                            *)

Read(S) == S \in SUBSET Users

Shape(r) ==
  /\ r.op = "leave" => r.target = r.actor
  /\ r.op = "remove" => r.target # r.actor
  /\ r.pc # "idle" => r.actor \in Users /\ r.target \in Users
  /\ r.pc \in {"meta", "member"} => r.op \notin Console
  /\ r.pc = "require" => r.op \in Console
  /\ r.pc = "admins" => r.op \in {"leave", "demote"}
  /\ r.pc = "target" => r.op \in {"demote", "transfer"}
  /\ r.pc = "owner" => r.op = "transfer"
  /\ r.pc \in {"admins", "members", "target", "owner", "write"} /\ r.op \notin Console =>
       \/ r.mine \in AdminRoles
       \/ r.op = "leave" /\ r.pc = "write" /\ r.mine = "MEMBER"
  /\ r.pc = "members" /\ r.op = "leave" => Read(r.admins)
  /\ r.pc = "target" /\ r.op = "demote" => Read(r.admins)
  /\ r.pc = "write" /\ r.op = "leave" /\ r.mine \in AdminRoles =>
       /\ Read(r.admins)
       /\ AtMostOne(r.admins) => Read(r.members) /\ AtMostOne(r.members)
  /\ r.pc = "write" /\ r.op = "demote" =>
       /\ Read(r.admins)
       /\ r.theirs \in {"MEMBER", "ADMIN"}
       /\ r.theirs = "ADMIN" => ~AtMostOne(r.admins)

CallShape == \A c \in Calls : Shape(call[c])

IInv == TypeOK /\ CallShape

-----------------------------------------------------------------------------
(* The table of handlers. *)

(* The names of the program counters. *)
LEMMA Names ==
  /\ "idle" \in PCs /\ "meta" \in PCs /\ "member" \in PCs /\ "admins" \in PCs
  /\ "members" \in PCs /\ "target" \in PCs /\ "owner" \in PCs /\ "require" \in PCs
  /\ "write" \in PCs
BY DEF PCs

(* A finished handler has a typed record of the right shape. *)
LEMMA IdleRecord == Idle \in CallRecord /\ Idle.pc = "idle" /\ Shape(Idle)
<1>1. Idle \in CallRecord
  BY DEF Idle, CallRecord, PCs, AllOps, NotRead
<1>2. /\ Idle.pc = "idle" /\ Idle.op = "leave" /\ Idle.target = NoUser
      /\ Idle.actor = NoUser
  BY DEF Idle
<1>3. Shape(Idle) BY <1>2 DEF Shape
<1>4. QED BY <1>1, <1>2, <1>3

(* The fields of a handler have their types. *)
LEMMA CallFields ==
  ASSUME TypeOK, NEW c \in Calls
  PROVE  /\ call[c] \in CallRecord
         /\ call[c].pc \in PCs /\ call[c].op \in AllOps
         /\ call[c].actor \in Users \cup {NoUser} /\ call[c].target \in Users \cup {NoUser}
         /\ call[c].mine \in Roles \cup {"unread"} /\ call[c].theirs \in Roles \cup {"unread"}
         /\ call[c].admins \in SUBSET (Users \cup {NoUser})
         /\ call[c].members \in SUBSET (Users \cup {NoUser})
         /\ call[c].was \in Users \cup {NoUser}
BY DEF TypeOK, CallRecord

(* Replacing one record by a good one keeps the table good. *)
LEMMA Replace ==
  ASSUME IInv, NEW c \in Calls, NEW r \in CallRecord, Shape(r),
         call' = [call EXCEPT ![c] = r]
  PROVE  call' \in [Calls -> CallRecord] /\ CallShape'
<1>1. call \in [Calls -> CallRecord] BY DEF IInv, TypeOK
<1>2. call' \in [Calls -> CallRecord] BY <1>1
<1>3. \A d \in Calls : call'[d] = IF d = c THEN r ELSE call[d] BY <1>1
<1>4. \A d \in Calls : Shape(call'[d]) BY <1>3 DEF IInv, CallShape
<1>5. QED BY <1>2, <1>4 DEF CallShape, Shape, Read, AtMostOne

(* A handler that is done keeps the table good. *)
LEMMA FinishKeeps ==
  ASSUME IInv, NEW c \in Calls, Finish(c)
  PROVE  call' \in [Calls -> CallRecord] /\ CallShape' /\ call'[c].pc = "idle"
<1>1. call' = [call EXCEPT ![c] = Idle] BY DEF Finish
<1>2. call'[c] = Idle BY <1>1 DEF IInv, TypeOK
<1>3. QED BY <1>1, <1>2, IdleRecord, Replace

(* What a handler that only moves on looks like. *)
LEMMA MoveRecord ==
  ASSUME TypeOK, NEW c \in Calls, NEW pc \in PCs
  PROVE  LET r == [call[c] EXCEPT !.pc = pc] IN
         /\ r \in CallRecord /\ r.pc = pc
         /\ r.op = call[c].op /\ r.actor = call[c].actor /\ r.target = call[c].target
         /\ r.mine = call[c].mine /\ r.theirs = call[c].theirs
         /\ r.admins = call[c].admins /\ r.members = call[c].members
BY CallFields DEF CallRecord

-----------------------------------------------------------------------------
(* Every step keeps the table. *)

(* A new handler. *)
LEMMA BeginKeeps ==
  ASSUME IInv, NEW c \in Calls, NEW op \in Ops, NEW a \in Users, NEW t \in Users,
         Begin(c, op, a, t)
  PROVE  call' \in [Calls -> CallRecord] /\ CallShape'
<1> DEFINE r == [Idle EXCEPT !.pc = FirstQuery(op), !.op = op, !.actor = a, !.target = t]
<1>1. op \in AllOps BY GroupsAssumption DEF GroupsAssumption
<1>2. FirstQuery(op) \in {"meta", "member", "require"}
  BY DEF FirstQuery
<1>3. /\ op = "leave" => FirstQuery(op) = "member"
      /\ FirstQuery(op) = "require" <=> op \in Console
  BY DEF FirstQuery, Console
<1>4. r \in CallRecord
  BY <1>1, <1>2, IdleRecord, Names DEF CallRecord
<1>5. r.pc = FirstQuery(op) /\ r.op = op /\ r.actor = a /\ r.target = t
  BY IdleRecord DEF CallRecord
<1> HIDE DEF r
<1>6. Shape(r)
  BY <1>2, <1>3, <1>5 DEF Shape, Begin
<1>7. call' = [call EXCEPT ![c] = r] BY DEF Begin, r
<1>8. QED BY <1>4, <1>6, <1>7, Replace

(* The meta query. *)
LEMMA GetMetaKeeps ==
  ASSUME IInv, NEW c \in Calls, GetMeta(c)
  PROVE  call' \in [Calls -> CallRecord] /\ CallShape'
<1> DEFINE r == [call[c] EXCEPT !.pc = "member"]
<1>1. CASE Finish(c) BY <1>1, FinishKeeps
<1>2. CASE call' = [call EXCEPT ![c].pc = "member"]
  <2>1. call' = [call EXCEPT ![c] = r] BY <1>2
  <2>2. /\ r \in CallRecord /\ r.pc = "member" /\ r.op = call[c].op
        /\ r.actor = call[c].actor /\ r.target = call[c].target
    BY MoveRecord, Names DEF IInv
  <2> HIDE DEF r
  <2>3. Shape(call[c]) /\ call[c].pc = "meta" BY DEF IInv, CallShape, GetMeta
  <2>4. Shape(r) BY <2>2, <2>3 DEF Shape
  <2>5. QED BY <2>1, <2>2, <2>4, Replace
<1>3. QED BY <1>1, <1>2 DEF GetMeta

(* The membership query. *)
LEMMA GetMembershipKeeps ==
  ASSUME IInv, NEW c \in Calls, GetMembership(c)
  PROVE  call' \in [Calls -> CallRecord] /\ CallShape'
<1> DEFINE m   == role[call[c].actor]
           op  == call[c].op
           pc  == AfterMember(op, m)
           op2 == IF op = "own" THEN "transfer" ELSE op
           r   == [call[c] EXCEPT !.pc = pc, !.mine = m, !.op = op2]
<1>1. CASE Finish(c) BY <1>1, FinishKeeps
<1>2. CASE call' = [call EXCEPT ![c] = r]
           /\ (m \in AdminRoles \/ (op = "leave" /\ m # "none"))
  <2>1. Shape(call[c]) /\ call[c].pc = "member" BY DEF IInv, CallShape, GetMembership
  <2>2. call[c] \in CallRecord /\ op \in AllOps BY CallFields DEF IInv
  <2>3. call[c].actor \in Users /\ call[c].target \in Users BY <2>1 DEF Shape
  <2>4. m \in Roles BY <2>3 DEF IInv, TypeOK
  <2>5. pc \in {"admins", "members", "meta", "target", "write"} /\ pc \in PCs
    BY Names DEF AfterMember
  <2>6. op2 \in AllOps BY <2>2 DEF AllOps
  <2>7. /\ pc = "admins" => \/ op = "demote"
                            \/ op = "leave" /\ m \in AdminRoles
        /\ pc = "members" => op = "add"
        /\ pc = "target" => op = "transfer"
        /\ pc = "write" /\ op = "leave" => m \notin AdminRoles
        /\ op = "demote" => pc = "admins"
        /\ op = "own" => pc = "meta"
    BY DEF AfterMember
  <2>8. /\ r \in CallRecord /\ r.pc = pc /\ r.op = op2 /\ r.mine = m
        /\ r.actor = call[c].actor /\ r.target = call[c].target
    BY <2>2, <2>4, <2>5, <2>6 DEF CallRecord
  <2>9. op \notin Console /\ op2 \notin Console BY <2>1 DEF Shape, Console
  <2> HIDE DEF m, op, pc, op2, r
  <2>10. m \in {"none", "MEMBER"} \cup AdminRoles BY <2>4 DEF Roles, AdminRoles
  <2>11. /\ op = "leave" => call[c].target = call[c].actor
         /\ op = "remove" => call[c].target # call[c].actor
    BY <2>1 DEF Shape, op
  <2>12. op2 = "leave" <=> op = "leave" BY DEF op2
  <2>13. op2 = "demote" <=> op = "demote" BY DEF op2
  <2>14. op2 = "remove" <=> op = "remove" BY DEF op2
  <2>15. op2 = "transfer" <=> op \in {"own", "transfer"} BY DEF op2
  <2>16. Shape(r)
    BY <1>2, <2>3, <2>5, <2>7, <2>8, <2>9, <2>10, <2>11, <2>12, <2>13, <2>14, <2>15
    DEF Shape
  <2>17. QED BY <1>2, <2>8, <2>16, Replace
<1>3. QED BY <1>1, <1>2 DEF GetMembership

(* The count of the admins. *)
LEMMA CountAdminsKeeps ==
  ASSUME IInv, NEW c \in Calls, CountAdmins(c)
  PROVE  call' \in [Calls -> CallRecord] /\ CallShape'
<1> DEFINE A  == IF deleted THEN {} ELSE Admins
           pc == IF call[c].op = "demote" THEN "target"
                 ELSE IF AtMostOne(A) THEN "members" ELSE "write"
           r  == [call[c] EXCEPT !.pc = pc, !.admins = A]
<1>1. call' = [call EXCEPT ![c] = r] BY DEF CountAdmins
<1>2. Shape(call[c]) /\ call[c].pc = "admins" BY DEF IInv, CallShape, CountAdmins
<1>3. call[c] \in CallRecord BY CallFields DEF IInv
<1>4. A \in SUBSET (Users \cup {NoUser}) /\ Read(A) BY DEF Admins, Read
<1>5. pc \in PCs BY Names
<1>6. /\ pc = "target" => call[c].op = "demote"
      /\ pc = "members" => call[c].op # "demote"
      /\ pc = "write" => call[c].op # "demote" /\ ~AtMostOne(A)
      /\ pc \in {"target", "members", "write"}
  OBVIOUS
<1> HIDE DEF A, pc
<1>7. /\ r \in CallRecord /\ r.pc = pc /\ r.op = call[c].op /\ r.mine = call[c].mine
      /\ r.actor = call[c].actor /\ r.target = call[c].target /\ r.admins = A
  BY <1>3, <1>4, <1>5 DEF CallRecord
<1> HIDE DEF r
<1>8. Shape(r) BY <1>2, <1>4, <1>6, <1>7 DEF Shape
<1>9. QED BY <1>1, <1>7, <1>8, Replace

(* The last admin leaves a group of one. *)
LEMMA LastLeavesKeeps ==
  ASSUME IInv, NEW c \in Calls, LastLeaves(c)
  PROVE  call' \in [Calls -> CallRecord] /\ CallShape'
<1> DEFINE r == [call[c] EXCEPT !.pc = "write", !.members = Members]
<1>1. CASE Finish(c) BY <1>1, FinishKeeps
<1>2. CASE AtMostOne(Members) /\ call' = [call EXCEPT ![c] = r]
  <2>1. Shape(call[c]) /\ call[c].pc = "members" /\ call[c].op = "leave"
    BY DEF IInv, CallShape, LastLeaves
  <2>2. call[c] \in CallRecord BY CallFields DEF IInv
  <2>3. Members \in SUBSET Users BY DEF Members
  <2>4. /\ r \in CallRecord /\ r.pc = "write" /\ r.op = call[c].op
        /\ r.mine = call[c].mine /\ r.actor = call[c].actor /\ r.target = call[c].target
        /\ r.admins = call[c].admins /\ r.members = Members
    BY <2>2, <2>3, Names DEF CallRecord
  <2> HIDE DEF r
  <2>5. Shape(r) BY <1>2, <2>1, <2>3, <2>4 DEF Shape, Read
  <2>6. QED BY <1>2, <2>4, <2>5, Replace
<1>3. QED BY <1>1, <1>2 DEF LastLeaves

(* A candidate is added. *)
LEMMA PickInvitableKeeps ==
  ASSUME IInv, NEW c \in Calls, PickInvitable(c)
  PROVE  call' \in [Calls -> CallRecord] /\ CallShape'
<1> DEFINE r == [call[c] EXCEPT !.pc = "write"]
<1>1. CASE Finish(c) BY <1>1, FinishKeeps
<1>2. CASE call' = [call EXCEPT ![c].pc = "write"]
  <2>1. call' = [call EXCEPT ![c] = r] BY <1>2
  <2>2. Shape(call[c]) /\ call[c].pc = "members" /\ call[c].op = "add"
    BY DEF IInv, CallShape, PickInvitable
  <2>3. /\ r \in CallRecord /\ r.pc = "write" /\ r.op = call[c].op
        /\ r.mine = call[c].mine /\ r.actor = call[c].actor /\ r.target = call[c].target
    BY MoveRecord, Names DEF IInv
  <2> HIDE DEF r
  <2>4. Shape(r) BY <2>2, <2>3 DEF Shape
  <2>5. QED BY <2>1, <2>3, <2>4, Replace
<1>3. QED BY <1>1, <1>2 DEF PickInvitable

(* The target's membership. *)
LEMMA GetTargetKeeps ==
  ASSUME IInv, NEW c \in Calls, GetTarget(c)
  PROVE  call' \in [Calls -> CallRecord] /\ CallShape'
<1> DEFINE m  == role[call[c].target]
           pc == IF call[c].op = "demote" THEN "write" ELSE "owner"
           r  == [call[c] EXCEPT !.theirs = m, !.pc = pc]
<1>1. CASE Finish(c) BY <1>1, FinishKeeps
<1>2. CASE /\ call' = [call EXCEPT ![c] = r]
           /\ m # "none"
           /\ call[c].op = "demote" => m # "OWNER"
           /\ call[c].op = "demote" /\ m = "ADMIN" => ~AtMostOne(call[c].admins)
  <2>1. Shape(call[c]) /\ call[c].pc = "target" BY DEF IInv, CallShape, GetTarget
  <2>2. call[c] \in CallRecord BY CallFields DEF IInv
  <2>3. m \in Roles BY <2>1 DEF Shape, IInv, TypeOK
  <2>4. pc \in PCs BY Names
  <2>5. /\ r \in CallRecord /\ r.pc = pc /\ r.op = call[c].op /\ r.mine = call[c].mine
        /\ r.theirs = m /\ r.actor = call[c].actor /\ r.target = call[c].target
        /\ r.admins = call[c].admins
    BY <2>2, <2>3, <2>4 DEF CallRecord
  <2>6. \/ pc = "write" /\ call[c].op = "demote"
        \/ pc = "owner" /\ call[c].op = "transfer"
    BY <2>1 DEF Shape
  <2> HIDE DEF m, pc, r
  <2>7. call[c].op = "demote" => m \in {"MEMBER", "ADMIN"} BY <1>2, <2>3 DEF Roles
  <2>8. Shape(r) BY <1>2, <2>1, <2>5, <2>6, <2>7 DEF Shape
  <2>9. QED BY <1>2, <2>5, <2>8, Replace
<1>3. QED BY <1>1, <1>2 DEF GetTarget

(* The owner to be replaced. *)
LEMMA FindOwnerKeeps ==
  ASSUME IInv, NEW c \in Calls, FindOwner(c)
  PROVE  call' \in [Calls -> CallRecord] /\ CallShape'
<1> DEFINE r == [call[c] EXCEPT !.pc = "write", !.was = owner]
<1>1. CASE Finish(c) BY <1>1, FinishKeeps
<1>2. CASE call' = [call EXCEPT ![c] = r]
  <2>1. Shape(call[c]) /\ call[c].pc = "owner" BY DEF IInv, CallShape, FindOwner
  <2>2. call[c] \in CallRecord /\ owner \in Users \cup {NoUser}
    BY CallFields DEF IInv, TypeOK
  <2>3. /\ r \in CallRecord /\ r.pc = "write" /\ r.op = call[c].op
        /\ r.mine = call[c].mine /\ r.actor = call[c].actor /\ r.target = call[c].target
    BY <2>2, Names DEF CallRecord
  <2> HIDE DEF r
  <2>4. Shape(r) BY <2>1, <2>3 DEF Shape
  <2>5. QED BY <1>2, <2>3, <2>4, Replace
<1>3. QED BY <1>1, <1>2 DEF FindOwner

(* The check of the console. *)
LEMMA RequireKeeps ==
  ASSUME IInv, NEW c \in Calls, Require(c)
  PROVE  call' \in [Calls -> CallRecord] /\ CallShape'
<1> DEFINE r == [call[c] EXCEPT !.pc = "write"]
<1>1. CASE Finish(c) BY <1>1, FinishKeeps
<1>2. CASE call' = [call EXCEPT ![c].pc = "write"]
  <2>1. call' = [call EXCEPT ![c] = r] BY <1>2
  <2>2. Shape(call[c]) /\ call[c].pc = "require" BY DEF IInv, CallShape, Require
  <2>3. /\ r \in CallRecord /\ r.pc = "write" /\ r.op = call[c].op
        /\ r.actor = call[c].actor /\ r.target = call[c].target
    BY MoveRecord, Names DEF IInv
  <2> HIDE DEF r
  <2>4. Shape(r) BY <2>2, <2>3 DEF Shape, Console
  <2>5. QED BY <2>1, <2>3, <2>4, Replace
<1>3. QED BY <1>1, <1>2 DEF Require

(* A check touches nothing but the table; a write ends its handler. *)
LEMMA CheckKeeps ==
  ASSUME IInv, NEW c \in Calls, Check(c)
  PROVE  /\ call' \in [Calls -> CallRecord] /\ CallShape'
         /\ UNCHANGED <<role, owner, deleted>>
BY GetMetaKeeps, GetMembershipKeeps, CountAdminsKeeps, LastLeavesKeeps,
   PickInvitableKeeps, GetTargetKeeps, FindOwnerKeeps, RequireKeeps
DEF Check, GetMeta, GetMembership, CountAdmins, LastLeaves, PickInvitable, GetTarget,
    FindOwner, Require

(* A write ends its handler, and leaves typed rows behind. *)
LEMMA WriteKeeps ==
  ASSUME IInv, NEW c \in Calls, Write(c)
  PROVE  /\ call' \in [Calls -> CallRecord] /\ CallShape'
         /\ call[c].pc = "write" /\ call'[c].pc = "idle"
         /\ role' \in [Users -> Roles] /\ owner' \in Users \cup {NoUser}
         /\ deleted' \in BOOLEAN
<1>1. call[c].pc = "write" /\ Finish(c)
  BY DEF Write, Writes, AddMembers, RemoveMember, SetMemberRole, TransferOwnership, Delete
<1>2. call' \in [Calls -> CallRecord] /\ CallShape' /\ call'[c].pc = "idle"
  BY <1>1, FinishKeeps
<1>3. call[c].target \in Users BY <1>1 DEF IInv, CallShape, Shape
<1> USE <1>3 DEF IInv, TypeOK, Roles
<1>4. CASE AddMembers(c) BY <1>1, <1>2, <1>4 DEF AddMembers
<1>5. CASE RemoveMember(c) BY <1>1, <1>2, <1>5 DEF RemoveMember
<1>6. CASE SetMemberRole(c) BY <1>1, <1>2, <1>6 DEF SetMemberRole
<1>7. CASE TransferOwnership(c) BY <1>1, <1>2, <1>7 DEF TransferOwnership
<1>8. CASE Delete(c) BY <1>1, <1>2, <1>8 DEF Delete
<1>9. QED BY <1>4, <1>5, <1>6, <1>7, <1>8 DEF Write

(* What a handler has read is worth what CallShape says, at every query. *)
THEOREM Invariance == Spec => []IInv
<1>1. Init => IInv
  <2> SUFFICES ASSUME Init PROVE IInv OBVIOUS
  <2>1. TypeOK BY IdleRecord DEF Init, TypeOK, Roles
  <2>2. \A c \in Calls : call[c] = Idle BY DEF Init
  <2>3. QED BY <2>1, <2>2, IdleRecord DEF IInv, CallShape
<1>2. IInv /\ [Next]_vars => IInv'
  <2> SUFFICES ASSUME IInv, [Next]_vars PROVE IInv' OBVIOUS
  <2>1. ASSUME NEW c \in Calls, NEW op \in Ops, NEW a \in Users, NEW t \in Users,
               Begin(c, op, a, t)
        PROVE  IInv'
    BY <2>1, BeginKeeps DEF Begin, IInv, TypeOK
  <2>2. ASSUME NEW c \in Calls, Check(c) PROVE IInv'
    BY <2>2, CheckKeeps DEF IInv, TypeOK
  <2>3. ASSUME NEW c \in Calls, Write(c) PROVE IInv'
    BY <2>3, WriteKeeps DEF IInv, TypeOK
  <2>4. ASSUME NEW c \in Calls, Abandon(c) PROVE IInv'
    BY <2>4, FinishKeeps DEF Abandon, IInv, TypeOK
  <2>5. CASE UNCHANGED vars
    BY <2>5 DEF vars, IInv, TypeOK, CallShape, Shape, Read, AtMostOne
  <2>6. QED BY <2>1, <2>2, <2>3, <2>4, <2>5 DEF Next
<1>3. QED BY <1>1, <1>2, PTL DEF Spec

(* Every variable of the group keeps its type. *)
THEOREM TypeCorrect == Spec => []TypeOK
BY Invariance, PTL DEF IInv

-----------------------------------------------------------------------------
(* The action properties: only a write moves the rows. *)

(* A step that moves a row is a write. *)
LEMMA OnlyWrites ==
  ASSUME IInv, [Next]_vars
  PROVE  \/ UNCHANGED <<role, owner, deleted>>
         \/ \E c \in Calls : Write(c)
<1>1. CASE UNCHANGED vars BY <1>1 DEF vars
<1>2. CASE Next BY <1>2, CheckKeeps DEF Next, Begin, Abandon
<1>3. QED BY <1>1, <1>2

(* Leaving the rows alone keeps the group governed and its owner one. *)
LEMMA RowsKept ==
  ASSUME UNCHANGED <<role, owner, deleted>>
  PROVE  Governed' = Governed /\ OneOwner' = OneOwner
BY DEF Governed, OneOwner, Members, Admins

(* Giving somebody an admin's role keeps the group governed. *)
LEMMA AdminGoverns ==
  ASSUME NEW u \in Users, role'[u] \in AdminRoles
  PROVE  Governed'
BY DEF Governed, Admins

(* A removal that leaves members without an admin took the only one. *)
LEMMA OnlyAdminGone ==
  ASSUME IInv, NEW t \in Users, role' = [role EXCEPT ![t] = "none"], Governed, ~Governed'
  PROVE  /\ Admins = {t} /\ t \in Members
         /\ \E u \in Members : u # t
<1>1. role \in [Users -> Roles] BY DEF IInv, TypeOK
<1>2. Members' = Members \ {t} /\ Admins' = Admins \ {t}
  BY <1>1 DEF Members, Admins, AdminRoles
<1>3. Admins \subseteq Members BY DEF Members, Admins, AdminRoles
<1>4. QED BY <1>2, <1>3 DEF Governed

(* Only the console, or a handler somebody overtook, takes the last admin. *)
THEOREM LastAdminStays == Spec => LastAdminKept
<1>1. IInv /\ [Next]_vars =>
        [Governed /\ ~Governed' =>
           \E c \in Calls : /\ call[c].pc = "write" /\ call'[c].pc = "idle"
                            /\ call[c].op \in Console \/ Stale(c)]_vars
  <2> SUFFICES ASSUME IInv, [Next]_vars, Governed, ~Governed'
               PROVE  \E c \in Calls : /\ call[c].pc = "write" /\ call'[c].pc = "idle"
                                       /\ call[c].op \in Console \/ Stale(c)
    OBVIOUS
  <2>1. PICK c \in Calls : Write(c) BY OnlyWrites, RowsKept
  <2>2. /\ call[c].pc = "write" /\ call'[c].pc = "idle"
        /\ role \in [Users -> Roles] /\ role' \in [Users -> Roles]
    BY <2>1, WriteKeeps DEF IInv, TypeOK
  <2> SUFFICES ASSUME call[c].op \notin Console, ~Stale(c) PROVE FALSE
    BY <2>2
  <2>3. /\ call[c].actor \in Users /\ call[c].target \in Users
        /\ \/ call[c].mine \in AdminRoles
           \/ call[c].op = "leave" /\ call[c].mine = "MEMBER"
    BY <2>2 DEF IInv, CallShape, Shape
  <2>4. role[call[c].actor] = call[c].mine BY <2>3 DEF Stale, AdminRoles
  <2> DEFINE t == call[c].target
  <2>5. NoUser \notin Users BY GroupsAssumption DEF GroupsAssumption
  <2>6. \A S : Read(S) => S # NotRead BY <2>5 DEF Read, NotRead
  <2>7. CASE AddMembers(c)
    <3>1. call[c].op = "add" BY <2>7 DEF AddMembers, Writes, Console
    <3>2. role[call[c].actor] \in AdminRoles BY <2>3, <2>4, <3>1
    <3>3. role'[call[c].actor] \in AdminRoles
      BY <2>2, <2>3, <2>7, <3>2 DEF AddMembers, AdminRoles
    <3>4. QED BY <2>3, <3>3, AdminGoverns
  <2>8. CASE RemoveMember(c)
    <3>1. role' = [role EXCEPT ![t] = "none"] BY <2>8 DEF RemoveMember
    <3>2. /\ Admins = {t} /\ t \in Members
          /\ \E u \in Members : u # t
      BY <2>3, <3>1, OnlyAdminGone
    <3>3. CASE call[c].op = "remove"
      <4>1. call[c].actor \in Admins BY <2>3, <2>4, <3>3 DEF Admins
      <4>2. call[c].actor # t BY <3>3 DEF IInv, CallShape, Shape
      <4>3. QED BY <3>2, <4>1, <4>2
    <3>4. CASE call[c].op = "leave"
      <4>1. call[c].actor = t BY <3>4 DEF IInv, CallShape, Shape
      <4>2. call[c].mine \in AdminRoles BY <2>4, <3>2, <4>1 DEF Admins
      <4>3. /\ Read(call[c].admins)
            /\ AtMostOne(call[c].admins) =>
                 Read(call[c].members) /\ AtMostOne(call[c].members)
        BY <2>2, <3>4, <4>2 DEF IInv, CallShape, Shape
      <4>4. call[c].admins = Admins BY <2>6, <4>3 DEF Stale
      <4>5. AtMostOne(call[c].admins) BY <3>2, <4>4 DEF AtMostOne
      <4>6. call[c].members = Members BY <2>6, <4>3, <4>5 DEF Stale
      <4>7. QED BY <3>2, <4>3, <4>5, <4>6 DEF AtMostOne
    <3>5. QED BY <2>8, <3>3, <3>4 DEF RemoveMember, Writes, Console
  <2>9. CASE SetMemberRole(c)
    <3>1. PICK r \in Roles :
            /\ call[c].op = "promote" => r = "ADMIN"
            /\ role' = [role EXCEPT ![t] = IF @ = "none" THEN @ ELSE r]
      BY <2>9 DEF SetMemberRole, Roles
    <3>2. CASE role[t] = "none"
      <4>1. role' = role BY <2>2, <2>3, <3>1, <3>2
      <4>2. QED BY <4>1 DEF Governed, Members, Admins
    <3>3. CASE role[t] # "none" /\ call[c].op = "promote"
      BY <2>2, <2>3, <3>1, <3>3, AdminGoverns DEF AdminRoles
    <3>4. CASE role[t] # "none" /\ call[c].op = "demote"
      <4>1. /\ Read(call[c].admins) /\ call[c].theirs \in {"MEMBER", "ADMIN"}
            /\ call[c].theirs = "ADMIN" => ~AtMostOne(call[c].admins)
        BY <2>2, <3>4 DEF IInv, CallShape, Shape
      <4>2. role[t] = call[c].theirs BY <4>1 DEF Stale
      <4>3. Admins = call[c].admins BY <2>6, <4>1 DEF Stale
      <4>4. \A u \in Users : u # t => role'[u] = role[u] BY <2>2, <2>3, <3>1
      <4>5. Admins \subseteq {t} BY <4>4, AdminGoverns DEF Admins
      <4>6. AtMostOne(Admins) BY <4>5 DEF AtMostOne
      <4>7. role[t] = "MEMBER" BY <4>1, <4>2, <4>3, <4>6
      <4>8. Admins = {} BY <4>5, <4>7 DEF Admins, AdminRoles
      <4>9. t \in Members BY <2>3, <4>7 DEF Members
      <4>10. QED BY <4>8, <4>9 DEF Governed
    <3>5. QED BY <2>9, <3>2, <3>3, <3>4 DEF SetMemberRole, Writes
  <2>10. CASE TransferOwnership(c)
    <3>1. CASE role' = role
      BY <3>1 DEF Governed, Members, Admins
    <3>2. CASE role'[t] = "OWNER" BY <2>3, <3>2, AdminGoverns DEF AdminRoles
    <3>3. QED BY <2>3, <2>10, <3>1, <3>2 DEF TransferOwnership
  <2>11. CASE Delete(c) BY <2>11, RowsKept DEF Delete, Governed, Members, Admins
  <2>12. QED BY <2>1, <2>7, <2>8, <2>9, <2>10, <2>11 DEF Write
<1>2. QED BY <1>1, Invariance, PTL DEF LastAdminKept, Spec

(* Two owners only come of a transfer whose previous owner is out of date. *)
THEOREM OneOwnerStays == Spec => OneOwnerKept
<1>1. IInv /\ [Next]_vars =>
        [OneOwner /\ ~OneOwner' =>
           \E c \in Calls : /\ call[c].pc = "write" /\ call'[c].pc = "idle"
                            /\ call[c].op = "transfer" /\ call[c].was # owner]_vars
  <2> SUFFICES ASSUME IInv, [Next]_vars, OneOwner, ~OneOwner'
               PROVE  \E c \in Calls : /\ call[c].pc = "write" /\ call'[c].pc = "idle"
                                       /\ call[c].op = "transfer" /\ call[c].was # owner
    OBVIOUS
  <2>1. PICK c \in Calls : Write(c) BY OnlyWrites, RowsKept
  <2>2. call[c].pc = "write" /\ call'[c].pc = "idle" BY <2>1, WriteKeeps
  <2>3. role \in [Users -> Roles] BY DEF IInv, TypeOK
  <2>4. PICK u \in Users : role'[u] = "OWNER" /\ owner' # u BY DEF OneOwner
  <2>5. role[u] = "OWNER" => owner = u BY DEF OneOwner
  <2>6. CASE AddMembers(c) BY <2>3, <2>4, <2>5, <2>6 DEF AddMembers
  <2>7. CASE RemoveMember(c) BY <2>3, <2>4, <2>5, <2>7 DEF RemoveMember
  <2>8. CASE SetMemberRole(c) BY <2>3, <2>4, <2>5, <2>8 DEF SetMemberRole
  <2>9. CASE TransferOwnership(c)
    <3>1. call[c].op = "transfer" BY <2>9 DEF TransferOwnership, Writes
    <3>2. call[c].was # owner BY <2>4, <2>5, <2>9 DEF TransferOwnership
    <3>3. QED BY <2>2, <3>1, <3>2
  <2>10. CASE Delete(c) BY <2>4, <2>5, <2>10 DEF Delete
  <2>11. QED BY <2>1, <2>6, <2>7, <2>8, <2>9, <2>10 DEF Write
<1>2. QED BY <1>1, Invariance, PTL DEF OneOwnerKept, Spec

(* No promotion or transfer in flight brings back who has left. *)
THEOREM BackAsMember == Spec => ReturnsAsMember
<1> DEFINE Added(u) ==
      /\ role'[u] = "MEMBER"
      /\ \E c \in Calls : /\ call[c].pc = "write" /\ call'[c].pc = "idle"
                          /\ call[c].op \in {"add", "console_add"}
                          /\ call[c].target = u
<1>1. IInv /\ [Next]_vars =>
        [\A u \in Users : role[u] = "none" /\ role'[u] # "none" => Added(u)]_vars
  <2> SUFFICES ASSUME IInv, [Next]_vars, NEW u \in Users,
                      role[u] = "none", role'[u] # "none"
               PROVE  Added(u)
    OBVIOUS
  <2>1. PICK c \in Calls : Write(c) BY OnlyWrites
  <2>2. call[c].pc = "write" /\ call'[c].pc = "idle" BY <2>1, WriteKeeps
  <2>3. role \in [Users -> Roles] BY DEF IInv, TypeOK
  <2>4. CASE AddMembers(c)
    <3>1. call[c].op \in {"add", "console_add"} BY <2>4 DEF AddMembers, Writes
    <3>2. call[c].target = u /\ role'[u] = "MEMBER" BY <2>3, <2>4 DEF AddMembers
    <3>3. QED BY <2>2, <3>1, <3>2
  <2>5. CASE RemoveMember(c) BY <2>3, <2>5 DEF RemoveMember
  <2>6. CASE SetMemberRole(c) BY <2>3, <2>6 DEF SetMemberRole
  <2>7. CASE TransferOwnership(c) BY <2>7 DEF TransferOwnership
  <2>8. CASE Delete(c) BY <2>8 DEF Delete
  <2>9. QED BY <2>1, <2>4, <2>5, <2>6, <2>7, <2>8 DEF Write
<1>2. QED BY <1>1, Invariance, PTL DEF ReturnsAsMember, Spec

-----------------------------------------------------------------------------
(* A deleted group. *)

(* The handlers that may still be there once the group is settled. *)
Harmless(r) == r.op = "leave" \/ r.pc \in {"idle", "meta", "require"}

(* A handler that starts is harmless, whatever the operation. *)
LEMMA BeginHarmless ==
  ASSUME IInv, NEW c \in Calls, NEW op \in Ops, NEW a \in Users, NEW t \in Users,
         Begin(c, op, a, t)
  PROVE  Harmless(call'[c])
<1>1. FirstQuery(op) \in {"meta", "require"} \/ op = "leave" BY DEF FirstQuery
<1>2. call'[c] = [Idle EXCEPT !.pc = FirstQuery(op), !.op = op, !.actor = a, !.target = t]
  BY DEF Begin, IInv, TypeOK
<1>3. call'[c].pc = FirstQuery(op) /\ call'[c].op = op BY <1>2 DEF Idle
<1>4. QED BY <1>1, <1>3 DEF Harmless

(* A check of a harmless handler on a deleted group ends it, unless it is  *)
(* a leave, which stays one.                                               *)
LEMMA CheckHarmless ==
  ASSUME IInv, deleted, NEW c \in Calls, Check(c), Harmless(call[c])
  PROVE  Harmless(call'[c])
<1> USE DEF Harmless
<1>1. CASE Finish(c) BY <1>1, FinishKeeps
<1>2. CASE call[c].op = "leave"
  <2>1. \/ GetMembership(c) \/ CountAdmins(c) \/ LastLeaves(c) \/ Finish(c)
    BY <1>2 DEF Check, GetMeta, PickInvitable, GetTarget, FindOwner, Require,
                IInv, CallShape, Shape, Console
  <2>2. call \in [Calls -> CallRecord] BY DEF IInv, TypeOK
  <2>3. CASE GetMembership(c) /\ ~Finish(c)
    <3> DEFINE m == role[call[c].actor]
               r == [call[c] EXCEPT !.pc = AfterMember("leave", m), !.mine = m, !.op = "leave"]
    <3>1. call' = [call EXCEPT ![c] = r] BY <1>2, <2>3 DEF GetMembership
    <3>2. call'[c] = r BY <2>2, <3>1
    <3>3. r.op = "leave" BY <2>2 DEF CallRecord
    <3>4. QED BY <3>2, <3>3
  <2>4. CASE CountAdmins(c)
    BY <1>2, <2>2, <2>4 DEF CountAdmins, CallRecord, Harmless
  <2>5. CASE LastLeaves(c) /\ ~Finish(c)
    BY <1>2, <2>2, <2>5 DEF LastLeaves, CallRecord, Harmless
  <2>6. QED BY <1>1, <2>1, <2>3, <2>4, <2>5
<1>3. CASE call[c].op # "leave" /\ ~Finish(c)
  <2>1. call[c].pc \in {"idle", "meta", "require"} BY <1>3 DEF Harmless
  <2>2. QED BY <1>3, <2>1 DEF Check, GetMeta, GetMembership, CountAdmins, LastLeaves,
            PickInvitable, GetTarget, FindOwner, Require
<1>4. QED BY <1>1, <1>2, <1>3

(* A handler that moves leaves the others as they were. *)
LEMMA OthersKept ==
  ASSUME IInv, NEW c \in Calls,
         \/ \E op \in Ops, a, t \in Users : Begin(c, op, a, t)
         \/ Check(c) \/ Write(c) \/ Abandon(c)
  PROVE  \A d \in Calls \ {c} : call'[d] = call[d]
<1>1. call \in [Calls -> CallRecord] BY DEF IInv, TypeOK
<1>2. ASSUME NEW r, call' = [call EXCEPT ![c] = r]
      PROVE  \A d \in Calls \ {c} : call'[d] = call[d]
  BY <1>1, <1>2
<1>3. CASE Finish(c) BY <1>2, <1>3 DEF Finish
<1>4. CASE \E op \in Ops, a, t \in Users : Begin(c, op, a, t)
  BY <1>1, <1>4 DEF Begin
<1>5. CASE Check(c)
  BY <1>1, <1>5 DEF Check, Finish, GetMeta, GetMembership, CountAdmins, LastLeaves,
                    PickInvitable, GetTarget, FindOwner, Require
<1>6. CASE Write(c)
  BY <1>3, <1>6 DEF Write, Writes, AddMembers, RemoveMember, SetMemberRole,
                    TransferOwnership, Delete
<1>7. CASE Abandon(c) BY <1>3, <1>7 DEF Abandon
<1>8. QED BY <1>4, <1>5, <1>6, <1>7

(* Once deleted and settled, a group only loses members that leave. *)
THEOREM FrozenOnceDeleted == Spec => DeletedIsFrozen
<1> DEFINE Left(u) ==
      /\ role'[u] = "none"
      /\ \E c \in Calls : call[c].op = "leave" /\ call[c].actor = u
<1>1. IInv /\ [Next]_vars =>
        [Settled =>
           /\ Settled' /\ owner' = owner
           /\ \A u \in Users :
                \/ role'[u] = role[u]
                \/ /\ role'[u] = "none"
                   /\ \E c \in Calls : call[c].op = "leave" /\ call[c].actor = u]_vars
  <2> SUFFICES ASSUME IInv, Next, Settled
               PROVE  /\ Settled' /\ owner' = owner
                      /\ \A u \in Users : role'[u] = role[u] \/ Left(u)
    BY DEF Next
  <2>1. deleted /\ \A c \in Calls : Harmless(call[c]) BY DEF Settled, Harmless
  <2>2. PICK c \in Calls :
          \/ \E op \in Ops, a, t \in Users : Begin(c, op, a, t)
          \/ Check(c) \/ Write(c) \/ Abandon(c)
    BY DEF Next
  <2>3. Harmless(call'[c]) /\ deleted' => Settled'
    BY <2>1, <2>2, OthersKept DEF Settled, Harmless
  <2>4. CASE \E op \in Ops, a, t \in Users : Begin(c, op, a, t)
    <3>1. PICK op \in Ops, a \in Users, t \in Users : Begin(c, op, a, t) BY <2>4
    <3>2. Harmless(call'[c]) BY <3>1, BeginHarmless
    <3>3. role' = role /\ owner' = owner /\ deleted' = deleted BY <3>1 DEF Begin
    <3>4. QED BY <2>1, <2>3, <3>2, <3>3
  <2>5. CASE Check(c)
    BY <2>1, <2>3, <2>5, CheckHarmless, CheckKeeps
  <2>6. CASE Abandon(c)
    BY <2>1, <2>3, <2>6, FinishKeeps DEF Abandon, Harmless
  <2>7. CASE Write(c)
    <3>1. call[c].pc = "write" /\ call'[c].pc = "idle" BY <2>7, WriteKeeps
    <3>2. call[c].op = "leave" BY <2>1, <3>1 DEF Harmless
    <3>3. RemoveMember(c)
      BY <2>7, <3>2 DEF Write, Writes, AddMembers, SetMemberRole, TransferOwnership, Delete
    <3>4. call[c].target = call[c].actor BY <3>2 DEF IInv, CallShape, Shape
    <3>5. role' = [role EXCEPT ![call[c].actor] = "none"] /\ UNCHANGED <<owner, deleted>>
      BY <3>3, <3>4 DEF RemoveMember
    <3>6. role \in [Users -> Roles] BY DEF IInv, TypeOK
    <3>7. \A u \in Users : role'[u] = role[u] \/ Left(u) BY <3>2, <3>5, <3>6
    <3>8. QED BY <2>1, <2>3, <3>1, <3>5, <3>7 DEF Harmless
  <2>8. QED BY <2>2, <2>4, <2>5, <2>6, <2>7
<1>2. QED BY <1>1, Invariance, PTL DEF DeletedIsFrozen, Spec
=============================================================================
