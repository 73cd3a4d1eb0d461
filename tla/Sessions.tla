------------------------------ MODULE Sessions ------------------------------
(***************************************************************************)
(* The sign-ins of one user: the refresh tokens kept in Redis, the         *)
(* handlers that issue, exchange and revoke them, and the account that     *)
(* begins with an invitation and may be deleted by an administrator.       *)
(*                                                                         *)
(* Grain.  One action is one access to the database or to Redis; checking  *)
(* a password belongs to the query before it, and a wrong password changes *)
(* nothing.  refresh() compares the stored hash with the token's: a signed *)
(* token names its own key, so that the comparison always succeeds, and    *)
(* the revocation behind it is never reached.  Left out: access tokens,    *)
(* which are not stored, the presence calls of login and logout, and that  *)
(* the console changes a password without touching any token.              *)
(***************************************************************************)
EXTENDS Naturals

CONSTANTS
  Tokens,         \* bound: the refresh tokens that are ever issued
  NoToken,
  AuthCalls       \* bound: the handlers that run at the same time

ASSUME SessionsAssumption == NoToken \notin Tokens

VARIABLES
  account,        \* the user's row: not there yet, there, deleted
  invited,        \* a UserInvite row for the user's email
  stored,         \* the tokens whose key auth:refresh:<user>:<jti> exists
  root,           \* history: the sign-in a token descends from, by its first token
  auth            \* the handlers in flight

sessionsVars == <<account, invited, stored, root, auth>>

AuthPCs == {"idle", "accept", "clean", "create", "settle", "invite", "link", "issue",
            "delete", "user", "update", "scan", "sweep", "answer"}

(* token: the one a refresh presented; todo: what the scan has yet to      *)
(* return; before: the tokens that were live when the password changed.    *)
AuthCall == [pc: AuthPCs, token: Tokens \cup {NoToken}, todo: SUBSET Tokens,
             before: SUBSET Tokens]

SessionsTypeOK ==
  /\ account \in {"none", "active", "gone"}
  /\ invited \in BOOLEAN
  /\ stored \subseteq Tokens
  /\ root \in [Tokens -> Tokens \cup {NoToken}]
  /\ auth \in [AuthCalls -> AuthCall]

SignedOff == [pc |-> "idle", token |-> NoToken, todo |-> {}, before |-> {}]

SessionsInit ==
  /\ account = "none" /\ invited = TRUE
  /\ stored = {} /\ root = [t \in Tokens |-> NoToken]
  /\ auth = [c \in AuthCalls |-> SignedOff]

Issued == {t \in Tokens : root[t] # NoToken}

AuthGoto(c, pc) == auth' = [auth EXCEPT ![c].pc = pc]
AuthDone(c)     == auth' = [auth EXCEPT ![c] = SignedOff]
AuthIf(ok, c, pc) == IF ok THEN AuthGoto(c, pc) ELSE AuthDone(c)

-----------------------------------------------------------------------------
(* The invitation. *)

(* UserInviteService.create: no account has the email. *)
InviteUser(c) ==
  /\ auth[c].pc = "idle" /\ account # "active"
  /\ AuthGoto(c, "invite")
  /\ UNCHANGED <<account, invited, stored, root>>

UpsertInvite(c) ==
  /\ auth[c].pc = "invite"
  /\ invited' = TRUE
  /\ AuthDone(c)
  /\ UNCHANGED <<account, stored, root>>

RevokeInvite ==
  /\ invited /\ invited' = FALSE
  /\ UNCHANGED <<account, stored, root, auth>>

(* requireValidUserInvite. *)
AcceptInvite(c) ==
  /\ auth[c].pc = "idle" /\ invited
  /\ AuthGoto(c, "accept")
  /\ UNCHANGED <<account, invited, stored, root>>

AcceptFindUser(c) ==
  /\ auth[c].pc = "accept"
  /\ AuthGoto(c, IF account = "active" THEN "clean" ELSE "create")
  /\ UNCHANGED <<account, invited, stored, root>>

(* The email is unique.  One whose account was deleted makes another user, *)
(* of whose sign-in only the end of the invitation is followed.            *)
CreateInvited(c) ==
  /\ auth[c].pc = "create"
  /\ account' = IF account = "none" THEN "active" ELSE account
  /\ AuthIf(account # "active", c, IF account = "none" THEN "settle" ELSE "clean")
  /\ UNCHANGED <<invited, stored, root>>

(* Deleting an invitation that is gone throws, though the account is made. *)
DeleteInvite(c) ==
  /\ auth[c].pc \in {"clean", "settle"}
  /\ invited' = FALSE
  /\ AuthIf(invited /\ auth[c].pc = "settle", c, "issue")
  /\ UNCHANGED <<account, stored, root>>

-----------------------------------------------------------------------------
(* Signing in, staying signed in, signing out. *)

Login(c) ==
  /\ auth[c].pc = "idle" /\ account = "active"
  /\ AuthGoto(c, "issue")
  /\ UNCHANGED <<account, invited, stored, root>>

(* The first sign-in with Google links the account to the profile. *)
LoginWithGoogle(c) ==
  /\ auth[c].pc = "idle" /\ account = "active"
  /\ AuthGoto(c, "link")
  /\ UNCHANGED <<account, invited, stored, root>>

LinkGoogle(c) ==
  /\ auth[c].pc = "link"
  /\ AuthIf(account = "active", c, "issue")
  /\ UNCHANGED <<account, invited, stored, root>>

(* Mutation: the signature is all that is checked. *)
RefreshFind_Signed(c, t) ==
  /\ auth[c].pc = "idle" /\ t \in Issued
  /\ auth' = [auth EXCEPT ![c] = [SignedOff EXCEPT !.pc = "delete", !.token = t]]
  /\ UNCHANGED <<account, invited, stored, root>>

(* A token whose key is gone is refused. *)
RefreshFind(c, t) ==
  /\ auth[c].pc = "idle" /\ t \in stored
  /\ auth' = [auth EXCEPT ![c] = [SignedOff EXCEPT !.pc = "delete", !.token = t]]
  /\ UNCHANGED <<account, invited, stored, root>>

RefreshDelete(c) ==
  /\ auth[c].pc = "delete"
  /\ stored' = stored \ {auth[c].token}
  /\ AuthGoto(c, "user")
  /\ UNCHANGED <<account, invited, root>>

RefreshUser(c) ==
  /\ auth[c].pc = "user"
  /\ AuthIf(account = "active", c, "issue")
  /\ UNCHANGED <<account, invited, stored, root>>

(* issueTokens, at the end of every sign-in and refresh. *)
IssueTokens(c) ==
  LET p == auth[c].token IN
  /\ auth[c].pc = "issue"
  /\ \E t \in Tokens \ Issued :
       /\ stored' = stored \cup {t}
       /\ root' = [root EXCEPT ![t] = IF p = NoToken THEN t ELSE root[p]]
  /\ AuthDone(c)
  /\ UNCHANGED <<account, invited>>

(* logout, or the key's time is up. *)
Logout(t) ==
  /\ t \in stored
  /\ stored' = stored \ {t}
  /\ UNCHANGED <<account, invited, root, auth>>

ChangePassword(c) ==
  /\ auth[c].pc = "idle" /\ account = "active"
  /\ AuthGoto(c, "update")
  /\ UNCHANGED <<account, invited, stored, root>>

UpdatePassword(c) ==
  /\ auth[c].pc = "update"
  /\ IF account = "active"
       THEN auth' = [auth EXCEPT ![c] = [SignedOff EXCEPT !.pc = "scan", !.before = stored]]
       ELSE AuthDone(c)
  /\ UNCHANGED <<account, invited, stored, root>>

(* A scan returns every key that is there from its beginning to its end.   *)
ScanTokens(c) ==
  /\ auth[c].pc = "scan"
  /\ auth' = [auth EXCEPT ![c] = [@ EXCEPT !.pc = "sweep", !.todo = stored]]
  /\ UNCHANGED <<account, invited, stored, root>>

(* Mutation: the first batch of keys is taken for all of them. *)
RevokeBatch_First(c) ==
  /\ auth[c].pc = "sweep"
  /\ \E K \in SUBSET stored : stored' = stored \ K
  /\ AuthGoto(c, "answer")
  /\ UNCHANGED <<account, invited, root>>

(* One batch is deleted; the scan ends when it has returned what it owes.  *)
RevokeBatch(c) ==
  /\ auth[c].pc = "sweep"
  /\ \E K \in SUBSET stored :
       /\ stored' = stored \ K
       /\ \/ auth' = [auth EXCEPT ![c].todo = @ \ K]
          \/ auth[c].todo \cap stored' = {} /\ AuthGoto(c, "answer")
  /\ UNCHANGED <<account, invited, root>>

AnswerChange(c) ==
  /\ auth[c].pc = "answer"
  /\ AuthDone(c)
  /\ UNCHANGED <<account, invited, stored, root>>

(* The administrator's delete; the tokens stay where they are. *)
DeleteUser ==
  /\ account = "active" /\ account' = "gone"
  /\ UNCHANGED <<invited, stored, root, auth>>

(* An access throws, or the process dies. *)
AuthAbandon(c) ==
  /\ auth[c].pc # "idle"
  /\ AuthDone(c)
  /\ UNCHANGED <<account, invited, stored, root>>

InviteStep(c) == \/ InviteUser(c) \/ UpsertInvite(c) \/ AcceptInvite(c) \/ AcceptFindUser(c)
                 \/ CreateInvited(c) \/ DeleteInvite(c)

SignInStep(c) == Login(c) \/ LoginWithGoogle(c) \/ LinkGoogle(c) \/ IssueTokens(c)

RefreshStep(c) == (\E t \in Tokens : RefreshFind(c, t)) \/ RefreshDelete(c) \/ RefreshUser(c)

PasswordStep(c) == \/ ChangePassword(c) \/ UpdatePassword(c) \/ ScanTokens(c)
                   \/ RevokeBatch(c) \/ AnswerChange(c)

SessionsNext ==
  \/ \E c \in AuthCalls : \/ InviteStep(c) \/ SignInStep(c) \/ RefreshStep(c)
                          \/ PasswordStep(c) \/ AuthAbandon(c)
  \/ \E t \in Tokens : Logout(t)
  \/ RevokeInvite \/ DeleteUser

SessionsSpec == SessionsInit /\ [][SessionsNext]_sessionsVars
-----------------------------------------------------------------------------
(* Properties. *)

(* Nothing of the sign-in is left: no token, and no refresh that found one. *)
SignedOut(r) ==
  /\ root[r] = r
  /\ \A t \in stored : root[t] # r
  /\ \A c \in AuthCalls : auth[c].token # NoToken => root[auth[c].token] # r

(* A sign-in that was ended, by a logout, a password change or its         *)
(* expiry, while none of its refreshes was under way is over for good: no  *)
(* order of refreshes and revocations brings a token of it back.           *)
SignedOutForGood == [][\A r \in Tokens : SignedOut(r) => SignedOut(r)']_sessionsVars

(* When a change of the password is answered, no token is left that was    *)
(* live when the password was replaced, whatever was issued, exchanged and *)
(* revoked while the keys were scanned.                                    *)
PasswordChangeRevokes ==
  [][\A c \in AuthCalls :
       auth[c].pc = "sweep" /\ auth'[c].pc = "answer" =>
         auth[c].before \cap stored' = {}]_sessionsVars
=============================================================================
