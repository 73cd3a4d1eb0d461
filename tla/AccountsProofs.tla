--------------------------- MODULE AccountsProofs ---------------------------
(***************************************************************************)
(* Theorems about the components around accounts: the sign-ins of a user,  *)
(* the grants of a role, the administrators, and the files rows name; for  *)
(* any constants and any number of handlers at the same time.              *)
(***************************************************************************)
EXTENDS MCAccounts, FiniteSetTheorems, TLAPS

-----------------------------------------------------------------------------
(* Sessions. *)

LEMMA AuthNames ==
  /\ "idle" \in AuthPCs /\ "accept" \in AuthPCs /\ "clean" \in AuthPCs /\ "create" \in AuthPCs
  /\ "settle" \in AuthPCs /\ "invite" \in AuthPCs /\ "link" \in AuthPCs /\ "issue" \in AuthPCs
  /\ "delete" \in AuthPCs /\ "user" \in AuthPCs /\ "update" \in AuthPCs /\ "scan" \in AuthPCs
  /\ "sweep" \in AuthPCs /\ "answer" \in AuthPCs
BY DEF AuthPCs

(* What a handler that replaces sessions knows at each of its steps. *)
Sweeping(r, live) ==
  r.pc = "sweep" => r.before \cap live \subseteq r.todo

SessionsInv ==
  /\ SessionsTypeOK
  /\ stored \subseteq Issued
  /\ \A c \in AuthCalls : auth[c].before \subseteq Issued
  /\ \A c \in AuthCalls : auth[c].token \in Issued \cup {NoToken}
  /\ \A c \in AuthCalls : Sweeping(auth[c], stored)

LEMMA SignedOffRecord ==
  /\ SignedOff \in AuthCall /\ SignedOff.pc = "idle" /\ SignedOff.before = {}
  /\ SignedOff.token = NoToken
BY DEF SignedOff, AuthCall, AuthPCs

(* The ways a handler's record changes keep its type. *)
LEMMA AuthAt ==
  ASSUME NEW r \in AuthCall, NEW pc \in AuthPCs
  PROVE  [r EXCEPT !.pc = pc] \in AuthCall
BY DEF AuthCall

LEMMA AuthKeeps ==
  ASSUME NEW r \in AuthCall, NEW pc \in AuthPCs, NEW S \in SUBSET Tokens
  PROVE  /\ [r EXCEPT !.todo = S] \in AuthCall
         /\ [r EXCEPT !.pc = pc, !.todo = S] \in AuthCall
         /\ [r EXCEPT !.pc = pc, !.before = S] \in AuthCall
BY DEF AuthCall

(* A step that moves one handler along, and neither issues nor revokes. *)
LEMMA AuthMoves ==
  ASSUME SessionsInv, NEW c \in AuthCalls, NEW pc \in AuthPCs, pc # "sweep",
         AuthGoto(c, pc) \/ AuthDone(c),
         account' \in {"none", "active", "gone"}, invited' \in BOOLEAN,
         stored' \subseteq stored, UNCHANGED root
  PROVE  /\ SessionsInv'
         /\ \A d \in AuthCalls : auth'[d].token \in {auth[d].token, NoToken}
<1>1. auth'[c] \in AuthCall /\ auth'[c].before \in {auth[c].before, {}} /\ auth'[c].pc # "sweep"
      /\ auth'[c].token \in {auth[c].token, NoToken}
  <2>1. CASE AuthGoto(c, pc)
    <3>1. auth'[c] = [auth[c] EXCEPT !.pc = pc]
      BY <2>1 DEF AuthGoto, SessionsInv, SessionsTypeOK
    <3>2. auth[c] \in AuthCall BY DEF SessionsInv, SessionsTypeOK
    <3>3. auth'[c].before = auth[c].before /\ auth'[c].pc = pc /\ auth'[c].token = auth[c].token
      BY <3>1, <3>2 DEF AuthCall
    <3>4. QED BY <3>1, <3>2, <3>3, AuthAt
  <2>2. CASE AuthDone(c)
    <3>1. auth'[c] = SignedOff BY <2>2 DEF AuthDone, SessionsInv, SessionsTypeOK
    <3>2. QED BY <3>1, SignedOffRecord
  <2>3. QED BY <2>1, <2>2
<1>2. auth' \in [AuthCalls -> AuthCall] /\ \A d \in AuthCalls : d # c => auth'[d] = auth[d]
  BY <1>1 DEF AuthGoto, AuthDone, SessionsInv, SessionsTypeOK
<1>3. Issued' = Issued BY DEF Issued
<1>4. SessionsTypeOK' BY <1>2 DEF SessionsInv, SessionsTypeOK
<1>5. \A d \in AuthCalls : auth'[d].before \subseteq Issued'
  BY <1>1, <1>2, <1>3 DEF SessionsInv
<1>6. \A d \in AuthCalls : Sweeping(auth'[d], stored')
  BY <1>1, <1>2 DEF SessionsInv, Sweeping
<1>7. \A d \in AuthCalls : auth'[d].token \in {auth[d].token, NoToken}
  BY <1>1, <1>2
<1>8. stored' \subseteq Issued' BY <1>3 DEF SessionsInv
<1>9. \A d \in AuthCalls : auth'[d].token \in Issued' \cup {NoToken}
  BY <1>3, <1>7 DEF SessionsInv
<1>10. QED BY <1>4, <1>5, <1>6, <1>7, <1>8, <1>9 DEF SessionsInv

(* A step that leaves every handler where it is. *)
LEMMA NobodyMoves ==
  ASSUME SessionsInv, UNCHANGED <<auth, root>>,
         account' \in {"none", "active", "gone"}, invited' \in BOOLEAN,
         stored' \subseteq stored
  PROVE  SessionsInv'
BY DEF SessionsInv, SessionsTypeOK, Issued, Sweeping

LEMMA SessionsStart == SessionsInit => SessionsInv
<1> SUFFICES ASSUME SessionsInit PROVE SessionsInv
  OBVIOUS
<1>1. SessionsTypeOK BY SignedOffRecord DEF SessionsInit, SessionsTypeOK
<1>2. QED BY <1>1, SignedOffRecord DEF SessionsInit, SessionsInv, Sweeping

(* What each of the actions that do more does. *)
LEMMA IssueKeeps ==
  ASSUME SessionsInv, NEW c \in AuthCalls, IssueTokens(c)
  PROVE  SessionsInv'
<1>1. PICK t \in Tokens \ Issued :
        /\ stored' = stored \cup {t}
        /\ root' = [root EXCEPT ![t] = IF auth[c].token = NoToken THEN t ELSE root[auth[c].token]]
  BY DEF IssueTokens
<1>2. auth[c] \in AuthCall BY DEF SessionsInv, SessionsTypeOK
<1>3. auth[c].token = NoToken \/ auth[c].token \in Tokens BY <1>2 DEF AuthCall
<1>4. auth'[c] = SignedOff /\ auth' \in [AuthCalls -> AuthCall]
      /\ \A d \in AuthCalls : d # c => auth'[d] = auth[d]
  BY SignedOffRecord DEF IssueTokens, AuthDone, SessionsInv, SessionsTypeOK
<1>5. root' \in [Tokens -> Tokens \cup {NoToken}]
  BY <1>1, <1>3 DEF SessionsInv, SessionsTypeOK
<1>6. SessionsTypeOK' BY <1>1, <1>4, <1>5 DEF IssueTokens, SessionsInv, SessionsTypeOK
<1>7. Issued \subseteq Issued'
  BY <1>1 DEF Issued, SessionsInv, SessionsTypeOK
<1>8. \A d \in AuthCalls : auth'[d].before \subseteq Issued'
  BY <1>4, <1>7, SignedOffRecord DEF SessionsInv
<1>9. \A d \in AuthCalls : Sweeping(auth'[d], stored')
  BY <1>1, <1>4, SignedOffRecord DEF SessionsInv, Sweeping
<1>10. root'[t] # NoToken
  BY <1>1, SessionsAssumption DEF SessionsInv, SessionsTypeOK, Issued
<1>11. stored' \subseteq Issued'
  BY <1>1, <1>5, <1>7, <1>10 DEF SessionsInv, SessionsTypeOK, Issued
<1>12. \A d \in AuthCalls : auth'[d].token \in Issued' \cup {NoToken}
  BY <1>4, <1>7, SignedOffRecord DEF SessionsInv
<1>13. QED BY <1>6, <1>8, <1>9, <1>11, <1>12 DEF SessionsInv

(* A handler takes up a new record, and nothing else moves. *)
LEMMA AuthTakes ==
  ASSUME SessionsInv, NEW c \in AuthCalls, NEW r \in AuthCall,
         auth' = [auth EXCEPT ![c] = r], UNCHANGED <<account, invited, root>>,
         stored' \subseteq stored,
         r.before \subseteq Issued, r.token \in Issued \cup {NoToken}, Sweeping(r, stored')
  PROVE  SessionsInv'
<1>1. auth'[c] = r /\ auth' \in [AuthCalls -> AuthCall]
      /\ \A d \in AuthCalls : d # c => auth'[d] = auth[d]
  BY DEF SessionsInv, SessionsTypeOK
<1>2. Issued' = Issued BY DEF Issued
<1>3. SessionsTypeOK' BY <1>1 DEF SessionsInv, SessionsTypeOK
<1>4. \A d \in AuthCalls : Sweeping(auth'[d], stored')
  BY <1>1 DEF SessionsInv, Sweeping
<1>5. \A d \in AuthCalls : /\ auth'[d].before \subseteq Issued'
                          /\ auth'[d].token \in Issued' \cup {NoToken}
  BY <1>1, <1>2 DEF SessionsInv
<1>6. stored' \subseteq Issued' BY <1>2 DEF SessionsInv
<1>7. QED BY <1>3, <1>4, <1>5, <1>6 DEF SessionsInv

LEMMA FindKeeps ==
  ASSUME SessionsInv, NEW c \in AuthCalls, NEW t \in Tokens, RefreshFind(c, t)
  PROVE  SessionsInv'
<1> DEFINE r == [SignedOff EXCEPT !.pc = "delete", !.token = t]
<1>1. SignedOff \in AuthCall BY SignedOffRecord
<1>2. r \in AuthCall BY <1>1, AuthNames DEF AuthCall
<1>3. r.pc = "delete" /\ r.before = {} /\ r.token = t BY <1>1, SignedOffRecord DEF AuthCall
<1>4. auth' = [auth EXCEPT ![c] = r] /\ UNCHANGED <<account, invited, stored, root>> /\ t \in stored
  BY DEF RefreshFind
<1>5. Sweeping(r, stored') BY <1>3 DEF Sweeping
<1>6. t \in Issued BY <1>4 DEF SessionsInv
<1> HIDE DEF r
<1>7. QED BY <1>2, <1>3, <1>4, <1>5, <1>6, AuthTakes

LEMMA PasswordKeeps ==
  ASSUME SessionsInv, NEW c \in AuthCalls, UpdatePassword(c) \/ ScanTokens(c) \/ RevokeBatch(c)
  PROVE  SessionsInv'
<1>0. auth[c] \in AuthCall /\ stored \in SUBSET Tokens /\ stored \subseteq Issued
      /\ auth[c].before \subseteq Issued /\ auth[c].token \in Issued \cup {NoToken}
      /\ account \in {"none", "active", "gone"} /\ invited \in BOOLEAN
  BY DEF SessionsInv, SessionsTypeOK
<1>1. CASE UpdatePassword(c)
  <2>1. CASE AuthDone(c)
    BY <1>0, <1>1, <2>1, AuthMoves, AuthNames DEF UpdatePassword
  <2>2. CASE ~AuthDone(c)
    <3> DEFINE r == [SignedOff EXCEPT !.pc = "scan", !.before = stored]
    <3>1. SignedOff \in AuthCall BY SignedOffRecord
    <3>2. r \in AuthCall BY <1>0, <3>1, AuthNames, AuthKeeps
    <3>3. r.pc = "scan" /\ r.before = stored /\ r.token = NoToken
      BY <3>1, SignedOffRecord DEF AuthCall
    <3>4. auth' = [auth EXCEPT ![c] = r] /\ UNCHANGED <<account, invited, stored, root>>
      BY <1>1, <2>2 DEF UpdatePassword
    <3>5. Sweeping(r, stored') BY <3>3 DEF Sweeping
    <3> HIDE DEF r
    <3>6. QED BY <1>0, <3>2, <3>3, <3>4, <3>5, AuthTakes
  <2>3. QED BY <2>1, <2>2
<1>2. CASE ScanTokens(c)
  <2> DEFINE r == [auth[c] EXCEPT !.pc = "sweep", !.todo = stored]
  <2>1. r \in AuthCall BY <1>0, AuthNames, AuthKeeps
  <2>2. r.pc = "sweep" /\ r.todo = stored /\ r.before = auth[c].before /\ r.token = auth[c].token
    BY <1>0 DEF AuthCall
  <2>3. auth' = [auth EXCEPT ![c] = r] /\ UNCHANGED <<account, invited, stored, root>>
    BY <1>2 DEF ScanTokens
  <2>4. Sweeping(r, stored') BY <2>2, <2>3 DEF Sweeping
  <2> HIDE DEF r
  <2>5. QED BY <1>0, <2>1, <2>2, <2>3, <2>4, AuthTakes
<1>3. CASE RevokeBatch(c)
  <2>1. PICK K \in SUBSET stored :
          /\ stored' = stored \ K
          /\ \/ auth' = [auth EXCEPT ![c].todo = @ \ K]
             \/ auth[c].todo \cap stored' = {} /\ AuthGoto(c, "answer")
    BY <1>3 DEF RevokeBatch
  <2>2. CASE AuthGoto(c, "answer")
    BY <1>0, <1>3, <2>1, <2>2, AuthMoves, AuthNames DEF RevokeBatch
  <2>3. CASE auth' = [auth EXCEPT ![c].todo = @ \ K]
    <3> DEFINE r == [auth[c] EXCEPT !.todo = auth[c].todo \ K]
    <3>1. auth[c].todo \ K \in SUBSET Tokens BY <1>0 DEF AuthCall
    <3>2. r \in AuthCall BY <1>0, <3>1, AuthNames, AuthKeeps
    <3>3. /\ r.pc = auth[c].pc /\ r.todo = auth[c].todo \ K
          /\ r.before = auth[c].before /\ r.token = auth[c].token
      BY <1>0 DEF AuthCall
    <3>4. auth' = [auth EXCEPT ![c] = r] /\ UNCHANGED <<account, invited, root>>
      BY <1>3, <2>3 DEF RevokeBatch
    <3>5. Sweeping(auth[c], stored) BY DEF SessionsInv
    <3>6. Sweeping(r, stored') BY <2>1, <3>3, <3>5 DEF Sweeping
    <3> HIDE DEF r
    <3>7. QED BY <1>0, <2>1, <3>2, <3>3, <3>4, <3>6, AuthTakes
  <2>4. QED BY <2>1, <2>2, <2>3
<1>4. QED BY <1>1, <1>2, <1>3

LEMMA SessionsStep == SessionsInv /\ [SessionsNext]_sessionsVars => SessionsInv'
<1> SUFFICES ASSUME SessionsInv, [SessionsNext]_sessionsVars PROVE SessionsInv'
  OBVIOUS
<1>0. account \in {"none", "active", "gone"} /\ invited \in BOOLEAN
  BY DEF SessionsInv, SessionsTypeOK
<1>1. CASE UNCHANGED sessionsVars
  BY <1>0, <1>1, NobodyMoves DEF sessionsVars
<1>2. CASE RevokeInvite \/ DeleteUser \/ \E t \in Tokens : Logout(t)
  BY <1>0, <1>2, NobodyMoves DEF RevokeInvite, DeleteUser, Logout
<1>3. ASSUME NEW c \in AuthCalls, InviteStep(c) PROVE SessionsInv'
  BY <1>0, <1>3, AuthMoves, AuthNames
  DEF InviteStep, InviteUser, UpsertInvite, AcceptInvite, AcceptFindUser, CreateInvited,
      DeleteInvite, AuthIf
<1>4. ASSUME NEW c \in AuthCalls, SignInStep(c) PROVE SessionsInv'
  <2>1. CASE IssueTokens(c) BY <2>1, IssueKeeps
  <2>2. CASE Login(c) \/ LoginWithGoogle(c) \/ LinkGoogle(c)
    BY <1>0, <2>2, AuthMoves, AuthNames DEF Login, LoginWithGoogle, LinkGoogle, AuthIf
  <2>3. QED BY <1>4, <2>1, <2>2 DEF SignInStep
<1>5. ASSUME NEW c \in AuthCalls, RefreshStep(c) PROVE SessionsInv'
  <2>1. CASE \E t \in Tokens : RefreshFind(c, t) BY <2>1, FindKeeps
  <2>2. CASE RefreshDelete(c) \/ RefreshUser(c)
    BY <1>0, <2>2, AuthMoves, AuthNames DEF RefreshDelete, RefreshUser, AuthIf
  <2>3. QED BY <1>5, <2>1, <2>2 DEF RefreshStep
<1>6. ASSUME NEW c \in AuthCalls, PasswordStep(c) PROVE SessionsInv'
  <2>1. CASE UpdatePassword(c) \/ ScanTokens(c) \/ RevokeBatch(c) BY <2>1, PasswordKeeps
  <2>2. CASE ChangePassword(c) \/ AnswerChange(c)
    BY <1>0, <2>2, AuthMoves, AuthNames DEF ChangePassword, AnswerChange
  <2>3. QED BY <1>6, <2>1, <2>2 DEF PasswordStep
<1>7. ASSUME NEW c \in AuthCalls, AuthAbandon(c) PROVE SessionsInv'
  BY <1>0, <1>7, AuthMoves, AuthNames DEF AuthAbandon
<1>8. QED BY <1>1, <1>2, <1>3, <1>4, <1>5, <1>6, <1>7 DEF SessionsNext

(* The variables keep their types, and what is stored was issued. *)
THEOREM SessionsInvariance == SessionsSpec => []SessionsInv
<1>1. SessionsInit => SessionsInv BY SessionsStart
<1>2. SessionsInv /\ [SessionsNext]_sessionsVars => SessionsInv' BY SessionsStep
<1>3. QED BY <1>1, <1>2, PTL DEF SessionsSpec

(* A step can only add a token that was never issued before, and leaves    *)
(* the descent of those that were.                                         *)
LEMMA StoredGrows ==
  ASSUME SessionsInv, [SessionsNext]_sessionsVars
  PROVE  \/ stored' \subseteq stored /\ root' = root
         \/ \E c \in AuthCalls : IssueTokens(c)
BY DEF sessionsVars, SessionsNext, InviteStep, SignInStep, RefreshStep, PasswordStep,
       InviteUser, UpsertInvite, AcceptInvite, AcceptFindUser, CreateInvited, DeleteInvite,
       Login, LoginWithGoogle, LinkGoogle, RefreshFind, RefreshDelete, RefreshUser,
       ChangePassword, UpdatePassword, ScanTokens, RevokeBatch, AnswerChange, AuthAbandon,
       Logout, DeleteUser, RevokeInvite

(* Only the handler whose turn it is changes its record. *)
LEMMA OneAtATime ==
  ASSUME SessionsInv, [SessionsNext]_sessionsVars
  PROVE  \/ auth' = auth
         \/ \E d \in AuthCalls, r \in AuthCall :
              /\ auth' = [auth EXCEPT ![d] = r]
              /\ r.token \in {auth[d].token, NoToken} \cup stored
              /\ RevokeBatch(d) \/ auth[d].pc # "sweep" \/ r.pc # "answer"
<1> USE DEF SessionsInv, SessionsTypeOK
<1>1. ASSUME NEW d \in AuthCalls, NEW pc \in AuthPCs, AuthGoto(d, pc) \/ AuthDone(d)
      PROVE  \E r \in AuthCall :
               /\ auth' = [auth EXCEPT ![d] = r]
               /\ r.token \in {auth[d].token, NoToken} /\ r.pc \in {pc, "idle"}
  <2>1. CASE AuthDone(d) BY <2>1, SignedOffRecord DEF AuthDone
  <2>2. CASE AuthGoto(d, pc)
    <3> DEFINE r == [auth[d] EXCEPT !.pc = pc]
    <3>1. auth[d] \in AuthCall OBVIOUS
    <3>2. r \in AuthCall BY <3>1, AuthAt
    <3>3. r.token = auth[d].token /\ r.pc = pc BY <3>1 DEF AuthCall
    <3>4. auth' = [auth EXCEPT ![d] = r] BY <2>2 DEF AuthGoto
    <3> HIDE DEF r
    <3>5. QED BY <3>2, <3>3, <3>4
  <2>3. QED BY <1>1, <2>1, <2>2
<1> DEFINE Moved(d) ==
      \E r \in AuthCall : /\ auth' = [auth EXCEPT ![d] = r]
                          /\ r.token \in {auth[d].token, NoToken} \cup stored
                          /\ RevokeBatch(d) \/ auth[d].pc # "sweep" \/ r.pc # "answer"
<1>2. ASSUME NEW d \in AuthCalls, NEW pc \in AuthPCs, AuthGoto(d, pc) \/ AuthDone(d),
             RevokeBatch(d) \/ auth[d].pc # "sweep" \/ pc # "answer"
      PROVE  Moved(d)
  BY <1>1, <1>2
<1>3. ASSUME NEW d \in AuthCalls, InviteStep(d) PROVE Moved(d)
  <2> HIDE DEF Moved, SessionsInv, SessionsTypeOK
  <2>1. QED
    BY <1>2, <1>3, AuthNames
    DEF InviteStep, InviteUser, UpsertInvite, AcceptInvite, AcceptFindUser, CreateInvited,
        DeleteInvite, AuthIf
<1>4. ASSUME NEW d \in AuthCalls, SignInStep(d) PROVE Moved(d)
  <2> HIDE DEF Moved, SessionsInv, SessionsTypeOK
  <2>1. QED
    BY <1>2, <1>4, AuthNames
    DEF SignInStep, Login, LoginWithGoogle, LinkGoogle, IssueTokens, AuthIf
<1>5. ASSUME NEW d \in AuthCalls, NEW t \in Tokens, RefreshFind(d, t) PROVE Moved(d)
  <2> DEFINE r == [SignedOff EXCEPT !.pc = "delete", !.token = t]
  <2>1. SignedOff \in AuthCall BY SignedOffRecord
  <2>2. r \in AuthCall BY <2>1, AuthNames DEF AuthCall
  <2>3. r.pc = "delete" /\ r.token = t BY <2>1 DEF AuthCall
  <2>4. auth' = [auth EXCEPT ![d] = r] /\ t \in stored BY <1>5 DEF RefreshFind
  <2> HIDE DEF r
  <2>5. QED BY <2>2, <2>3, <2>4
<1>6. ASSUME NEW d \in AuthCalls, RefreshDelete(d) \/ RefreshUser(d) PROVE Moved(d)
  <2> HIDE DEF Moved, SessionsInv, SessionsTypeOK
  <2>1. QED BY <1>2, <1>6, AuthNames DEF RefreshDelete, RefreshUser, AuthIf
<1>7. ASSUME NEW d \in AuthCalls, ChangePassword(d) \/ AnswerChange(d) \/ AuthAbandon(d)
      PROVE  Moved(d)
  <2> HIDE DEF Moved, SessionsInv, SessionsTypeOK
  <2>1. QED BY <1>2, <1>7, AuthNames DEF ChangePassword, AnswerChange, AuthAbandon
<1>8. ASSUME NEW d \in AuthCalls, UpdatePassword(d) PROVE Moved(d)
  <2>1. CASE AuthDone(d) BY <1>2, <2>1, AuthNames, <1>8 DEF UpdatePassword
  <2>2. CASE ~AuthDone(d)
    <3> DEFINE r == [SignedOff EXCEPT !.pc = "scan", !.before = stored]
    <3>1. SignedOff \in AuthCall BY SignedOffRecord
    <3>2. r \in AuthCall BY <3>1, AuthNames, AuthKeeps
    <3>3. r.pc = "scan" /\ r.token = NoToken BY <3>1, SignedOffRecord DEF AuthCall
    <3>4. auth' = [auth EXCEPT ![d] = r] BY <1>8, <2>2 DEF UpdatePassword
    <3> HIDE DEF r
    <3>5. QED BY <3>2, <3>3, <3>4
  <2>3. QED BY <2>1, <2>2
<1>9. ASSUME NEW d \in AuthCalls, ScanTokens(d) PROVE Moved(d)
  <2> DEFINE r == [auth[d] EXCEPT !.pc = "sweep", !.todo = stored]
  <2>1. auth[d] \in AuthCall /\ stored \in SUBSET Tokens OBVIOUS
  <2>2. r \in AuthCall BY <2>1, AuthNames, AuthKeeps
  <2>3. r.pc = "sweep" /\ r.token = auth[d].token BY <2>1 DEF AuthCall
  <2>4. auth' = [auth EXCEPT ![d] = r] BY <1>9 DEF ScanTokens
  <2> HIDE DEF r
  <2>5. QED BY <2>2, <2>3, <2>4
<1>10. ASSUME NEW d \in AuthCalls, RevokeBatch(d) PROVE Moved(d)
  <2>1. PICK K \in SUBSET stored :
          \/ auth' = [auth EXCEPT ![d].todo = @ \ K]
          \/ AuthGoto(d, "answer")
    BY <1>10 DEF RevokeBatch
  <2>2. CASE AuthGoto(d, "answer") BY <1>2, <1>10, <2>2, AuthNames
  <2>3. CASE auth' = [auth EXCEPT ![d].todo = @ \ K]
    <3> DEFINE r == [auth[d] EXCEPT !.todo = auth[d].todo \ K]
    <3>1. auth[d] \in AuthCall OBVIOUS
    <3>2. auth[d].todo \ K \in SUBSET Tokens BY <3>1 DEF AuthCall
    <3>3. r \in AuthCall BY <3>1, <3>2, AuthNames, AuthKeeps
    <3>4. r.token = auth[d].token BY <3>1 DEF AuthCall
    <3>5. auth' = [auth EXCEPT ![d] = r] BY <2>3
    <3> HIDE DEF r
    <3>6. QED BY <1>10, <3>3, <3>4, <3>5
  <2>4. QED BY <2>1, <2>2, <2>3
<1>11. CASE auth' = auth BY <1>11
<1>12. ASSUME NEW d \in AuthCalls, Moved(d)
       PROVE  \E e \in AuthCalls, r \in AuthCall :
                /\ auth' = [auth EXCEPT ![e] = r]
                /\ r.token \in {auth[e].token, NoToken} \cup stored
                /\ RevokeBatch(e) \/ auth[e].pc # "sweep" \/ r.pc # "answer"
  BY <1>12
<1> HIDE DEF Moved
<1>13. CASE \E d \in AuthCalls : Moved(d)
  BY <1>12, <1>13
<1>14. auth' = auth \/ \E d \in AuthCalls : Moved(d)
  BY <1>3, <1>4, <1>5, <1>6, <1>7, <1>8, <1>9, <1>10
  DEF SessionsNext, sessionsVars, RefreshStep, PasswordStep, Logout, RevokeInvite, DeleteUser
<1>15. QED BY <1>11, <1>13, <1>14

(* A sign-in that is over stays over. *)
LEMMA SignedOutStays ==
  ASSUME SessionsInv, [SessionsNext]_sessionsVars, NEW r \in Tokens, SignedOut(r)
  PROVE  SignedOut(r)'
<1>1. root[r] = r /\ (\A t \in stored : root[t] # r)
      /\ \A c \in AuthCalls : auth[c].token # NoToken => root[auth[c].token] # r
  BY DEF SignedOut
<1>2. ASSUME NEW c \in AuthCalls, auth'[c].token # NoToken
      PROVE  auth'[c].token \in Issued /\ root[auth'[c].token] # r
  <2>1. auth'[c].token \in {auth[c].token, NoToken} \cup stored
    BY OneAtATime DEF SessionsInv, SessionsTypeOK
  <2>2. QED BY <1>1, <1>2, <2>1 DEF SessionsInv
<1>3. CASE stored' \subseteq stored /\ root' = root
  BY <1>1, <1>2, <1>3 DEF SignedOut
<1>4. CASE \E c \in AuthCalls : IssueTokens(c)
  <2>1. PICK c \in AuthCalls : IssueTokens(c) BY <1>4
  <2>2. PICK t \in Tokens \ Issued :
          /\ stored' = stored \cup {t}
          /\ root' = [root EXCEPT ![t] = IF auth[c].token = NoToken THEN t ELSE root[auth[c].token]]
    BY <2>1 DEF IssueTokens
  <2>3. r \in Issued /\ t # r
    BY <1>1, <2>2, SessionsAssumption DEF Issued
  <2>4. root'[t] # r /\ \A s \in Tokens : s # t => root'[s] = root[s]
    BY <1>1, <2>2, <2>3 DEF SessionsInv, SessionsTypeOK
  <2>5. root'[r] = r BY <1>1, <2>3, <2>4
  <2>6. \A s \in stored' : root'[s] # r
    BY <1>1, <2>2, <2>4 DEF SessionsInv, SessionsTypeOK
  <2>7. \A d \in AuthCalls : auth'[d].token # NoToken => root'[auth'[d].token] # r
    BY <1>2, <2>2, <2>4 DEF Issued
  <2>8. QED BY <2>5, <2>6, <2>7 DEF SignedOut
<1>5. QED BY <1>3, <1>4, StoredGrows

(* Ended is ended: once a sign-in has no token left and no refresh under   *)
(* way, nothing the handlers do in any order gives it a token again.       *)
THEOREM SignedOutStaysOut == SessionsSpec => SignedOutForGood
<1>1. SessionsInit => SessionsInv BY SessionsStart
<1>2. SessionsInv /\ [SessionsNext]_sessionsVars => SessionsInv' BY SessionsStep
<1>3. SessionsInv /\ [SessionsNext]_sessionsVars =>
        [\A r \in Tokens : SignedOut(r) => SignedOut(r)']_sessionsVars
  BY SignedOutStays
<1>4. QED BY <1>1, <1>2, <1>3, PTL DEF SessionsSpec, SignedOutForGood

(* When a change of the password is answered, the tokens of before are     *)
(* gone: what the scan still owed covered every one that was left.         *)
THEOREM PasswordRevokes == SessionsSpec => PasswordChangeRevokes
<1>1. SessionsInit => SessionsInv BY SessionsStart
<1>2. SessionsInv /\ [SessionsNext]_sessionsVars => SessionsInv' BY SessionsStep
<1>3. SessionsInv /\ [SessionsNext]_sessionsVars =>
        [\A c \in AuthCalls :
           auth[c].pc = "sweep" /\ auth'[c].pc = "answer" =>
             auth[c].before \cap stored' = {}]_sessionsVars
  <2> SUFFICES ASSUME SessionsInv, [SessionsNext]_sessionsVars, NEW c \in AuthCalls,
                      auth[c].pc = "sweep", auth'[c].pc = "answer"
               PROVE  auth[c].before \cap stored' = {}
    OBVIOUS
  <2>1. RevokeBatch(c)
    BY OneAtATime DEF SessionsInv, SessionsTypeOK
  <2>2. auth[c] \in AuthCall /\ auth[c].before \cap stored \subseteq auth[c].todo
    BY DEF SessionsInv, SessionsTypeOK, Sweeping
  <2>3. PICK K \in SUBSET stored :
          /\ stored' = stored \ K
          /\ \/ auth' = [auth EXCEPT ![c].todo = @ \ K]
             \/ auth[c].todo \cap stored' = {} /\ AuthGoto(c, "answer")
    BY <2>1 DEF RevokeBatch
  <2>4. auth' # [auth EXCEPT ![c].todo = @ \ K]
    <3> SUFFICES ASSUME auth' = [auth EXCEPT ![c].todo = @ \ K] PROVE FALSE
      OBVIOUS
    <3>1. auth'[c] = [auth[c] EXCEPT !.todo = auth[c].todo \ K]
      BY DEF SessionsInv, SessionsTypeOK
    <3>2. auth'[c].pc = auth[c].pc BY <2>2, <3>1 DEF AuthCall
    <3>3. QED BY <3>2
  <2>5. QED BY <2>2, <2>3, <2>4
<1>4. QED BY <1>1, <1>2, <1>3, PTL DEF SessionsSpec, PasswordChangeRevokes

-----------------------------------------------------------------------------
(* Stored files. *)

LEMMA FileNames ==
  /\ "idle" \in FilePCs /\ "put" \in FilePCs /\ "name" \in FilePCs
  /\ "clear" \in FilePCs /\ "audit" \in FilePCs /\ "delete" \in FilePCs
BY DEF FilePCs

(* What a handler's record is worth: no handler was to name, or to keep,   *)
(* what another one deletes.                                               *)
Uploading(c) ==
  change[c].pc = "name" =>
    /\ change[c].new \in files /\ change[c].new # key
    /\ \A d \in FileCalls : /\ change[d].old # change[c].new
                            /\ d # c => change[d].new # change[c].new

Replacing(c) ==
  /\ change[c].pc \in {"audit", "delete"} => change[c].old = NoFile \/ change[c].old # key
  /\ change[c].pc \in {"put", "clear"} => change[c].new = NoFile

FilesInv ==
  /\ FilesTypeOK
  /\ files \subseteq made /\ key \in made \cup {NoFile}
  /\ NamedFileStored
  /\ \A c \in FileCalls : /\ change[c].old \in made \cup {NoFile}
                          /\ change[c].new \in made \cup {NoFile}
                          /\ Uploading(c) /\ Replacing(c)

LEMMA NoChangeRecord ==
  /\ NoChange \in FileCall /\ NoChange.pc = "idle"
  /\ NoChange.old = NoFile /\ NoChange.new = NoFile
BY DEF NoChange, FileCall, FilePCs

LEMMA FilesStart == FilesInit => FilesInv
BY NoChangeRecord
DEF FilesInit, FilesInv, FilesTypeOK, NamedFileStored, Uploading, Replacing

(* A handler that is done. *)
LEMMA FileDoneKeeps ==
  ASSUME FilesInv, NEW c \in FileCalls, FileDone(c), UNCHANGED <<picture, owned, key, made>>,
         files' = files \/ (files' = files \ {change[c].old} /\ change[c].pc = "delete")
  PROVE  FilesInv'
<1>1. change'[c] = NoChange /\ change' \in [FileCalls -> FileCall]
      /\ \A d \in FileCalls : d # c => change'[d] = change[d]
  BY NoChangeRecord DEF FileDone, FilesInv, FilesTypeOK
<1>2. FilesTypeOK' BY <1>1 DEF FilesInv, FilesTypeOK
<1>3. NamedFileStored'
  BY DEF FilesInv, NamedFileStored, Replacing
<1>4. \A d \in FileCalls : Uploading(d)'
  BY <1>1, NoChangeRecord, StoredFilesAssumption DEF FilesInv, FilesTypeOK, Uploading
<1>5. \A d \in FileCalls : Replacing(d)'
  BY <1>1, NoChangeRecord DEF FilesInv, Replacing
<1>6. QED BY <1>1, <1>2, <1>3, <1>4, <1>5, NoChangeRecord DEF FilesInv

LEMMA FindForKeeps ==
  ASSUME FilesInv, NEW c \in FileCalls, NEW p, NEW pc \in {"put", "clear"}, FindFor(c, p, pc)
  PROVE  FilesInv'
<1> DEFINE r == [pc |-> pc, old |-> key, new |-> NoFile]
<1>1. r \in FileCall /\ r.pc = pc /\ r.old = key /\ r.new = NoFile
  BY FileNames DEF FileCall, FilesInv, FilesTypeOK
<1>2. change' = [change EXCEPT ![c] = r] /\ UNCHANGED <<picture, owned, key, files, made>>
  BY DEF FindFor
<1> HIDE DEF r
<1>3. change'[c] = r /\ change' \in [FileCalls -> FileCall]
      /\ \A d \in FileCalls : d # c => change'[d] = change[d]
  BY <1>1, <1>2 DEF FilesInv, FilesTypeOK
<1>4. FilesTypeOK' /\ NamedFileStored'
  BY <1>2, <1>3 DEF FilesInv, FilesTypeOK, NamedFileStored
<1>5. \A d \in FileCalls : Uploading(d)'
  BY <1>1, <1>2, <1>3, StoredFilesAssumption DEF FilesInv, FilesTypeOK, Uploading
<1>6. \A d \in FileCalls : Replacing(d)'
  BY <1>1, <1>2, <1>3 DEF FilesInv, Replacing
<1>7. QED BY <1>1, <1>2, <1>3, <1>4, <1>5, <1>6 DEF FilesInv

LEMMA PutKeeps ==
  ASSUME FilesInv, NEW c \in FileCalls, PutFile(c)
  PROVE  FilesInv'
<1>1. PICK f \in Files \ made :
        /\ files' = files \cup {f} /\ made' = made \cup {f}
        /\ change' = [change EXCEPT ![c] = [@ EXCEPT !.pc = "name", !.new = f]]
  BY DEF PutFile
<1> DEFINE r == [change[c] EXCEPT !.pc = "name", !.new = f]
<1>2. change[c] \in FileCall BY DEF FilesInv, FilesTypeOK
<1>3. r \in FileCall /\ r.pc = "name" /\ r.new = f /\ r.old = change[c].old
  BY <1>2, FileNames DEF FileCall
<1>4. change' = [change EXCEPT ![c] = r] BY <1>1
<1> HIDE DEF r
<1>5. change'[c] = r /\ change' \in [FileCalls -> FileCall]
      /\ \A d \in FileCalls : d # c => change'[d] = change[d]
  BY <1>3, <1>4 DEF FilesInv, FilesTypeOK
<1>6. UNCHANGED <<picture, owned, key>> BY DEF PutFile
<1>7. FilesTypeOK' /\ NamedFileStored'
  BY <1>1, <1>5, <1>6 DEF FilesInv, FilesTypeOK, NamedFileStored
<1>8. \A d \in FileCalls : Uploading(d)'
  BY <1>1, <1>3, <1>5, <1>6, StoredFilesAssumption DEF FilesInv, FilesTypeOK, Uploading
<1>9. \A d \in FileCalls : Replacing(d)'
  BY <1>3, <1>5, <1>6 DEF FilesInv, Replacing
<1>10. QED BY <1>1, <1>3, <1>5, <1>6, <1>7, <1>8, <1>9 DEF FilesInv

LEMMA GotoKeeps ==
  ASSUME FilesInv, NEW c \in FileCalls, NEW pc \in {"audit", "delete"}, FileGoto(c, pc),
         UNCHANGED <<picture, owned, files, made>>,
         \/ change[c].pc \in {"name", "clear"} /\ key' = change[c].new
         \/ change[c].pc = "audit" /\ key' = key
  PROVE  FilesInv'
<1> DEFINE r == [change[c] EXCEPT !.pc = pc]
<1>1. change[c] \in FileCall BY DEF FilesInv, FilesTypeOK
<1>2. r \in FileCall /\ r.pc = pc /\ r.new = change[c].new /\ r.old = change[c].old
  BY <1>1, FileNames DEF FileCall
<1>3. change' = [change EXCEPT ![c] = r] BY DEF FileGoto
<1> HIDE DEF r
<1>4. change'[c] = r /\ change' \in [FileCalls -> FileCall]
      /\ \A d \in FileCalls : d # c => change'[d] = change[d]
  BY <1>2, <1>3 DEF FilesInv, FilesTypeOK
<1>5. FilesTypeOK'
  BY <1>1, <1>4 DEF FilesInv, FilesTypeOK, FileCall
<1>6. NamedFileStored'
  BY DEF FilesInv, NamedFileStored, Uploading, Replacing
<1>7. \A d \in FileCalls : change'[d].pc = "name" => d # c
  BY <1>2, <1>4
<1>8. \A d \in FileCalls : Uploading(d)'
  BY <1>2, <1>4, <1>7, StoredFilesAssumption DEF FilesInv, FilesTypeOK, Uploading, Replacing
<1>9. \A d \in FileCalls : Replacing(d)'
  BY <1>2, <1>4 DEF FilesInv, Replacing, Uploading
<1>10. QED BY <1>2, <1>4, <1>5, <1>6, <1>8, <1>9 DEF FilesInv

LEMMA FilesStep == FilesInv /\ [FilesNext]_filesVars => FilesInv'
<1> SUFFICES ASSUME FilesInv, [FilesNext]_filesVars PROVE FilesInv'
  OBVIOUS
<1>1. CASE UNCHANGED filesVars
  BY <1>1 DEF filesVars, FilesInv, FilesTypeOK, NamedFileStored, Uploading, Replacing
<1>2. ASSUME NEW c \in FileCalls, Upload(c) \/ Remove(c) PROVE FilesInv'
  BY <1>2, FindForKeeps
  DEF Upload, Remove, UploadAvatar, UploadByConsole, UploadAdminAvatar, UploadGroupImage, SetLogo,
      RemoveAvatar, RemoveByConsole, RemoveAdminAvatar, RemoveGroupImage, ClearLogo
<1>3. ASSUME NEW c \in FileCalls, PutFile(c) PROVE FilesInv'
  BY <1>3, PutKeeps
<1>4. ASSUME NEW c \in FileCalls, NameFile(c) PROVE FilesInv'
  BY <1>4, GotoKeeps, FileDoneKeeps DEF NameFile, AfterNaming
<1>5. ASSUME NEW c \in FileCalls, AuditChange(c) PROVE FilesInv'
  BY <1>5, GotoKeeps DEF AuditChange
<1>6. ASSUME NEW c \in FileCalls, DeleteOld(c) \/ FileAbandon(c) PROVE FilesInv'
  BY <1>6, FileDoneKeeps DEF DeleteOld, FileAbandon
<1>7. CASE RowDeleted
  BY <1>7 DEF RowDeleted, FilesInv, FilesTypeOK, NamedFileStored, Uploading, Replacing
<1>8. QED BY <1>1, <1>2, <1>3, <1>4, <1>5, <1>6, <1>7 DEF FilesNext

(* The picture a row names is stored, for any uploads and removals.        *)
THEOREM NamedFilesStored == FilesSpec => []NamedFileStored
<1>1. FilesInit => FilesInv BY FilesStart
<1>2. FilesInv /\ [FilesNext]_filesVars => FilesInv' BY FilesStep
<1>3. FilesInv => NamedFileStored BY DEF FilesInv
<1>4. QED BY <1>1, <1>2, <1>3, PTL DEF FilesSpec

-----------------------------------------------------------------------------
(* Role grants. *)

LEMMA RoleNames ==
  /\ "idle" \in RolePCs /\ "resolve" \in RolePCs /\ "granted" \in RolePCs
  /\ "update" \in RolePCs /\ "remove" \in RolePCs /\ "invalidate" \in RolePCs
BY DEF RolePCs

(* Two entries of the same revision grant the same; revision 0 is none.    *)
Agree(a, b) == a.rev = b.rev /\ a.rev # 0 => a.grants = b.grants

(* An entry was copied from the row, now or at an earlier revision.        *)
Copied(e) ==
  /\ rev # 0 => e.rev <= rev
  /\ rev # 0 /\ e.rev = rev => e.grants = grants

Known == {cache[s] : s \in Processes} \cup {request[c].row : c \in RoleCalls}

GrantsInv ==
  /\ GrantsTypeOK
  /\ \A c \in RoleCalls : request[c].pc = "resolve" => request[c].row.rev # 0
  /\ ~reborn => /\ \A a \in Known : Copied(a) /\ \A b \in Known : Agree(a, b)
                /\ GrantsCurrent

LEMMA RoleRecord ==
  ASSUME NEW c \in RoleCalls, NEW pc \in RolePCs, NEW row \in Entry, NEW g \in Grants,
         GrantsTypeOK, RoleStep(c, pc, row, g)
  PROVE  /\ request' \in [RoleCalls -> RoleCall]
         /\ request'[c].pc = pc /\ request'[c].row = row /\ request'[c].grants = g
         /\ \A d \in RoleCalls : d # c => request'[d] = request[d]
<1> DEFINE r == [pc |-> pc, at |-> request[c].at, row |-> row, grants |-> g]
<1>1. request[c] \in RoleCall BY DEF GrantsTypeOK
<1>2. r \in RoleCall /\ r.pc = pc /\ r.row = row /\ r.grants = g
  BY <1>1 DEF RoleCall
<1>3. request' = [request EXCEPT ![c] = r] BY DEF RoleStep
<1> HIDE DEF r
<1>4. QED BY <1>2, <1>3 DEF GrantsTypeOK

LEMMA NoEntryRecord == NoEntry \in Entry /\ NoEntry.rev = 0 /\ DefaultGrants \in Grants
BY RoleGrantsAssumption DEF NoEntry, Entry

(* What is known shrinks, but for entries that agree with nothing.         *)
LEMMA KnownShrinks ==
  ASSUME GrantsInv, GrantsTypeOK', rev' = rev, grants' = grants, reborn' = reborn,
         Known' \subseteq Known \cup {NoEntry},
         \A c \in RoleCalls : request'[c].pc = "resolve" => request'[c].row.rev # 0,
         ~reborn => GrantsCurrent'
  PROVE  GrantsInv'
<1>1. Copied(NoEntry) /\ \A b \in Known : Agree(NoEntry, b) /\ Agree(b, NoEntry)
  BY NoEntryRecord, RoleGrantsAssumption DEF Copied, Agree, GrantsInv, GrantsTypeOK
<1>2. Agree(NoEntry, NoEntry) BY DEF Agree
<1>3. ~reborn => \A a \in Known' : Copied(a)' /\ \A b \in Known' : Agree(a, b)
  BY <1>1, <1>2 DEF GrantsInv, Copied
<1>4. QED BY <1>3 DEF GrantsInv

(* A handler that goes to a step at which it holds no entry.               *)
LEMMA RowDropped ==
  ASSUME GrantsInv, NEW c \in RoleCalls, NEW pc \in {"idle", "update", "remove", "invalidate"},
         NEW g \in Grants, RoleStep(c, pc, NoEntry, g),
         rev' \in 0..MaxRev, grants' \in Grants, reborn' = reborn,
         \/ cache' = cache
         \/ \E s \in Processes : cache' = [cache EXCEPT ![s] = NoEntry]
  PROVE  /\ GrantsTypeOK' /\ Known' \subseteq Known \cup {NoEntry}
         /\ \A d \in RoleCalls : request'[d].pc = "resolve" => request'[d].row.rev # 0
         /\ ~reborn => GrantsCurrent'
<1>0. GrantsTypeOK BY DEF GrantsInv
<1>1. /\ request' \in [RoleCalls -> RoleCall]
      /\ request'[c].pc = pc /\ request'[c].row = NoEntry
      /\ \A d \in RoleCalls : d # c => request'[d] = request[d]
  BY <1>0, RoleRecord, RoleNames, NoEntryRecord
<1>2. cache' \in [Processes -> Entry] /\ \A s \in Processes : cache'[s] \in {cache[s], NoEntry}
  BY <1>0, NoEntryRecord DEF GrantsTypeOK
<1>3. GrantsTypeOK' BY <1>0, <1>1, <1>2 DEF GrantsTypeOK
<1>4. \A d \in RoleCalls : request'[d].row \in {request[d].row, NoEntry}
  BY <1>1
<1>5. Known' \subseteq Known \cup {NoEntry} BY <1>2, <1>4 DEF Known
<1>6. \A d \in RoleCalls : request'[d].pc = "resolve" => request'[d].row.rev # 0
  BY <1>1 DEF GrantsInv
<1>7. ~reborn => GrantsCurrent' BY <1>1 DEF GrantsInv, GrantsCurrent
<1>8. QED BY <1>3, <1>5, <1>6, <1>7

LEMMA GrantsStart == GrantsInit => GrantsInv
<1> SUFFICES ASSUME GrantsInit PROVE GrantsInv
  OBVIOUS
<1>1. \A c \in RoleCalls : /\ request[c].pc = "idle" /\ request[c].row = NoEntry
                          /\ request[c] \in RoleCall
  BY NoEntryRecord, RoleNames DEF GrantsInit, RoleCall
<1>2. request \in [RoleCalls -> RoleCall] BY <1>1 DEF GrantsInit
<1>3. GrantsTypeOK
  <2>1. rev \in 0..MaxRev BY RoleGrantsAssumption DEF GrantsInit
  <2>2. grants \in Grants /\ reborn \in BOOLEAN /\ cache \in [Processes -> Entry]
    BY NoEntryRecord DEF GrantsInit
  <2>3. QED BY <1>2, <2>1, <2>2 DEF GrantsTypeOK
<1>4. \A a \in Known : a = NoEntry BY <1>1 DEF Known, GrantsInit
<1>5. Copied(NoEntry) BY NoEntryRecord DEF Copied, GrantsInit
<1>6. QED BY <1>1, <1>3, <1>4, <1>5 DEF GrantsInv, Agree, GrantsCurrent

LEMMA FindRoleKeeps ==
  ASSUME GrantsInv, NEW c \in RoleCalls, FindRole(c)
  PROVE  GrantsInv'
<1> DEFINE e == [rev |-> rev, grants |-> grants]
<1>0. GrantsTypeOK BY DEF GrantsInv
<1>1. e \in Entry /\ e.rev = rev /\ e.grants = grants BY <1>0 DEF GrantsTypeOK, Entry
<1>2. RoleStep(c, "resolve", e, DefaultGrants) /\ rev > 0
      /\ UNCHANGED <<rev, grants, cache, reborn>>
  BY DEF FindRole
<1> HIDE DEF e
<1>3. /\ request' \in [RoleCalls -> RoleCall]
      /\ request'[c].pc = "resolve" /\ request'[c].row = e
      /\ \A d \in RoleCalls : d # c => request'[d] = request[d]
  BY <1>0, <1>1, <1>2, RoleRecord, RoleNames, NoEntryRecord
<1>4. GrantsTypeOK' BY <1>0, <1>2, <1>3 DEF GrantsTypeOK
<1>5. rev # 0 /\ rev \in Nat BY <1>0, <1>2 DEF GrantsTypeOK
<1>6. \A d \in RoleCalls : request'[d].pc = "resolve" => request'[d].row.rev # 0
  BY <1>1, <1>3, <1>5 DEF GrantsInv
<1>7. Known' \subseteq Known \cup {e} BY <1>2, <1>3 DEF Known
<1>8. ~reborn => /\ \A b \in Known : Agree(e, b) /\ Agree(b, e)
                 /\ Agree(e, e) /\ Copied(e)
  BY <1>1, <1>5 DEF GrantsInv, Agree, Copied
<1>9. ~reborn => \A a \in Known' : Copied(a)' /\ \A b \in Known' : Agree(a, b)
  BY <1>2, <1>7, <1>8 DEF GrantsInv, Copied
<1>10. ~reborn => GrantsCurrent' BY <1>3 DEF GrantsInv, GrantsCurrent
<1>11. QED BY <1>2, <1>4, <1>6, <1>9, <1>10 DEF GrantsInv

LEMMA ResolveKeeps ==
  ASSUME GrantsInv, NEW c \in RoleCalls, Resolve(c)
  PROVE  GrantsInv'
<1> DEFINE s == request[c].at
           e == IF cache[s].rev = request[c].row.rev THEN cache[s] ELSE request[c].row
<1>0. GrantsTypeOK /\ request[c] \in RoleCall BY DEF GrantsInv, GrantsTypeOK
<1>1. s \in Processes /\ request[c].row \in Entry BY <1>0 DEF RoleCall
<1>2. cache[s] \in Entry /\ cache[s] \in Known /\ request[c].row \in Known
  BY <1>0, <1>1 DEF GrantsTypeOK, Known
<1>3. e \in {cache[s], request[c].row} /\ e \in Entry BY <1>1, <1>2
<1>4. /\ request[c].pc = "resolve" /\ cache' = [cache EXCEPT ![s] = e]
      /\ RoleStep(c, "granted", request[c].row, e.grants)
      /\ UNCHANGED <<rev, grants, reborn>>
  BY DEF Resolve
<1>5. ~reborn => e.grants = request[c].row.grants
  BY <1>2, <1>4 DEF GrantsInv, Agree
<1>6. e.grants \in Grants BY <1>3 DEF Entry
<1> HIDE DEF e, s
<1>7. /\ request' \in [RoleCalls -> RoleCall]
      /\ request'[c].pc = "granted" /\ request'[c].row = request[c].row
      /\ request'[c].grants = e.grants
      /\ \A d \in RoleCalls : d # c => request'[d] = request[d]
  BY <1>0, <1>1, <1>4, <1>6, RoleRecord, RoleNames
<1>8. GrantsTypeOK' BY <1>0, <1>1, <1>3, <1>4, <1>7 DEF GrantsTypeOK
<1>9. \A t \in Processes : cache'[t] \in {cache[t], e}
  BY <1>0, <1>4 DEF GrantsTypeOK
<1>10. \A d \in RoleCalls : request'[d].row = request[d].row BY <1>7
<1>11. Known' \subseteq Known BY <1>2, <1>3, <1>9, <1>10 DEF Known
<1>12. \A d \in RoleCalls : request'[d].pc = "resolve" => request'[d].row.rev # 0
  BY <1>7 DEF GrantsInv
<1>13. ~reborn => GrantsCurrent' BY <1>5, <1>7 DEF GrantsInv, GrantsCurrent
<1>14. QED BY <1>4, <1>8, <1>11, <1>12, <1>13, KnownShrinks

(* The row changes: what was copied before is of an older revision.        *)
LEMMA WriteRoleKeeps ==
  ASSUME GrantsInv, NEW c \in RoleCalls, WriteRole(c) \/ EraseRole(c)
  PROVE  GrantsInv'
<1>0. GrantsTypeOK /\ request[c] \in RoleCall /\ MaxRev \in Nat
  BY RoleGrantsAssumption DEF GrantsInv, GrantsTypeOK
<1>1. request[c].grants \in Grants BY <1>0 DEF RoleCall
<1>2. /\ RoleStep(c, "idle", NoEntry, DefaultGrants) \/ RoleStep(c, "invalidate", NoEntry, DefaultGrants)
      /\ cache' = cache /\ reborn' = reborn
      /\ \/ rev' = rev /\ grants' = grants
         \/ rev \in 1..(MaxRev - 1) /\ rev' = rev + 1 /\ grants' = request[c].grants
         \/ rev' = 0 /\ grants' = DefaultGrants
  BY DEF WriteRole, EraseRole, RoleDone
<1>3. rev' \in 0..MaxRev /\ grants' \in Grants
  BY <1>0, <1>1, <1>2, NoEntryRecord DEF GrantsTypeOK
<1>4. /\ GrantsTypeOK' /\ Known' \subseteq Known \cup {NoEntry}
      /\ \A d \in RoleCalls : request'[d].pc = "resolve" => request'[d].row.rev # 0
      /\ ~reborn => GrantsCurrent'
  BY <1>2, <1>3, NoEntryRecord, RowDropped
<1>5. Known \subseteq Entry BY <1>0 DEF Known, GrantsTypeOK, RoleCall
<1>6. ~reborn => \A a \in Known \cup {NoEntry} : Copied(a)'
  <2> SUFFICES ASSUME ~reborn, NEW a \in Known \cup {NoEntry} PROVE Copied(a)'
    OBVIOUS
  <2>1. a \in Entry /\ a.rev \in 0..MaxRev BY <1>5, NoEntryRecord DEF Entry
  <2>2. a = NoEntry \/ Copied(a) BY DEF GrantsInv
  <2>3. CASE a = NoEntry BY <1>0, <1>3, <2>3, NoEntryRecord DEF Copied
  <2>4. CASE Copied(a) /\ rev' = rev /\ grants' = grants BY <2>4 DEF Copied
  <2>5. CASE Copied(a) /\ rev \in 1..(MaxRev - 1) /\ rev' = rev + 1
    BY <1>0, <2>1, <2>5 DEF Copied
  <2>6. CASE rev' = 0 BY <2>6 DEF Copied
  <2>7. QED BY <1>2, <2>2, <2>3, <2>4, <2>5, <2>6
<1>7. ~reborn => \A a \in Known \cup {NoEntry} : \A b \in Known \cup {NoEntry} : Agree(a, b)
  BY NoEntryRecord DEF GrantsInv, Agree
<1>8. QED BY <1>2, <1>4, <1>6, <1>7 DEF GrantsInv

LEMMA RestartKeeps ==
  ASSUME GrantsInv, NEW s \in Processes, Restart(s)
  PROVE  GrantsInv'
<1> DEFINE r == [pc |-> "idle", at |-> s, row |-> NoEntry, grants |-> DefaultGrants]
<1>0. GrantsTypeOK BY DEF GrantsInv
<1>1. r \in RoleCall /\ r.pc = "idle" /\ r.row = NoEntry
  BY NoEntryRecord, RoleNames DEF RoleCall
<1>2. /\ cache' = [cache EXCEPT ![s] = NoEntry]
      /\ request' = [c \in RoleCalls |-> IF request[c].at = s THEN r ELSE request[c]]
      /\ \/ rev > 0 /\ UNCHANGED <<rev, grants, reborn>>
         \/ rev = 0 /\ rev' = 1 /\ grants' = DefaultGrants /\ reborn' = TRUE
  BY DEF Restart
<1> HIDE DEF r
<1>3. \A c \in RoleCalls : request'[c] = r \/ request'[c] = request[c]
  BY <1>2
<1>4. request' \in [RoleCalls -> RoleCall]
  BY <1>0, <1>1, <1>2 DEF GrantsTypeOK
<1>5. rev' \in 0..MaxRev /\ grants' \in Grants /\ reborn' \in BOOLEAN
  <2>1. \/ rev' = rev /\ grants' = grants
        \/ rev' = 1 /\ grants' = DefaultGrants
    BY DEF Restart
  <2>2. rev \in 0..MaxRev /\ grants \in Grants /\ reborn \in BOOLEAN BY <1>0 DEF GrantsTypeOK
  <2>3. rev' \in 0..MaxRev BY <2>1, <2>2, RoleGrantsAssumption
  <2>4. grants' \in Grants BY <2>1, <2>2, NoEntryRecord
  <2>5. reborn' \in BOOLEAN BY <1>2, <2>2
  <2>6. QED BY <2>3, <2>4, <2>5
<1>6. cache' \in [Processes -> Entry] /\ \A t \in Processes : cache'[t] \in {cache[t], NoEntry}
  BY <1>0, <1>2, NoEntryRecord DEF GrantsTypeOK
<1>7. GrantsTypeOK' BY <1>4, <1>5, <1>6 DEF GrantsTypeOK
<1>8. \A c \in RoleCalls : request'[c].pc = "resolve" => request'[c].row.rev # 0
  BY <1>1, <1>3 DEF GrantsInv
<1>9. CASE reborn' BY <1>7, <1>8, <1>9 DEF GrantsInv
<1>10. CASE ~reborn'
  <2>1. UNCHANGED <<rev, grants, reborn>> BY <1>2, <1>10
  <2>2. Known' \subseteq Known \cup {NoEntry} BY <1>1, <1>3, <1>6 DEF Known
  <2>3. ~reborn => GrantsCurrent' BY <1>1, <1>3 DEF GrantsInv, GrantsCurrent
  <2>4. QED BY <1>7, <1>8, <2>1, <2>2, <2>3, KnownShrinks
<1>11. QED BY <1>9, <1>10

LEMMA GrantsStep == GrantsInv /\ [GrantsNext]_grantsVars => GrantsInv'
<1> SUFFICES ASSUME GrantsInv, [GrantsNext]_grantsVars PROVE GrantsInv'
  OBVIOUS
<1>0. GrantsTypeOK BY DEF GrantsInv
<1>1. CASE UNCHANGED grantsVars
  BY <1>1 DEF grantsVars, GrantsInv, GrantsTypeOK, GrantsCurrent, Known, Copied
<1>2. ASSUME NEW c \in RoleCalls, FindRole(c) PROVE GrantsInv'
  BY <1>2, FindRoleKeeps
<1>3. ASSUME NEW c \in RoleCalls, Resolve(c) PROVE GrantsInv'
  BY <1>3, ResolveKeeps
<1>4. ASSUME NEW c \in RoleCalls, AnswerGuarded(c) PROVE GrantsInv'
  <2>1. request[c].at \in Processes BY <1>0 DEF GrantsTypeOK, RoleCall
  <2>2. /\ RoleStep(c, "idle", NoEntry, DefaultGrants) /\ UNCHANGED <<rev, grants, reborn>>
        /\ cache' = cache \/ \E s \in Processes : cache' = [cache EXCEPT ![s] = NoEntry]
    BY <1>4, <2>1 DEF AnswerGuarded, RoleDone
  <2>3. UNCHANGED <<rev, grants>> BY <2>2
  <2>4. rev' \in 0..MaxRev /\ grants' \in Grants BY <1>0, <2>3 DEF GrantsTypeOK
  <2>5. QED BY <2>2, <2>4, <2>3, NoEntryRecord, RowDropped, KnownShrinks
<1>5. ASSUME NEW c \in RoleCalls, UpdateRole(c) \/ RemoveRole(c) PROVE GrantsInv'
  <2>1. PICK g \in Grants, pc \in {"update", "remove"} : RoleStep(c, pc, NoEntry, g)
    BY <1>5, NoEntryRecord DEF UpdateRole, RemoveRole
  <2>2. UNCHANGED <<rev, grants, cache, reborn>> BY <1>5 DEF UpdateRole, RemoveRole
  <2>3. rev' \in 0..MaxRev /\ grants' \in Grants BY <1>0, <2>2 DEF GrantsTypeOK
  <2>4. QED BY <2>1, <2>2, <2>3, RowDropped, KnownShrinks
<1>6. ASSUME NEW c \in RoleCalls, WriteRole(c) \/ EraseRole(c) PROVE GrantsInv'
  BY <1>6, WriteRoleKeeps
<1>7. ASSUME NEW s \in Processes, Restart(s) PROVE GrantsInv'
  BY <1>7, RestartKeeps
<1>8. QED BY <1>1, <1>2, <1>3, <1>4, <1>5, <1>6, <1>7 DEF GrantsNext

(* Unless the role was deleted and seeded again, a request is granted what *)
(* the row said when it read it, for any number of processes.              *)
THEOREM GrantsAreCurrent == GrantsSpec => []GrantsCurrent
<1>1. GrantsInit => GrantsInv BY GrantsStart
<1>2. GrantsInv /\ [GrantsNext]_grantsVars => GrantsInv' BY GrantsStep
<1>3. GrantsInv => GrantsCurrent BY DEF GrantsInv, GrantsCurrent
<1>4. QED BY <1>1, <1>2, <1>3, PTL DEF GrantsSpec

-----------------------------------------------------------------------------
(* Administrators. *)

LEMMA AdminNames ==
  /\ "idle" \in AdminPCs /\ "insert" \in AdminPCs /\ "tidy" \in AdminPCs
  /\ "upsert" \in AdminPCs /\ "accept" \in AdminPCs /\ "clean" \in AdminPCs
  /\ "settle" \in AdminPCs /\ "count" \in AdminPCs /\ "assign" \in AdminPCs
  /\ "delete" \in AdminPCs /\ "erase" \in AdminPCs
BY DEF AdminPCs

(* Whoever is about to take a super administrator's role counted more than *)
(* one; and at a count the target was one.                                 *)
Counted(j) ==
  /\ j.pc = "delete" => j.role = NoRole
  /\ j.pc \in {"assign", "delete"} /\ j.seen = Super /\ j.role # Super =>
       ~(Cardinality(j.supers) <= 1)

AdminInv == AdminTypeOK /\ \A c \in AdminCalls : Counted(job[c])

LEMMA NoJobRecord ==
  ASSUME NEW a \in Admins \cup {NoAdmin}
  PROVE  /\ NoJob(a) \in AdminJob /\ NoJob(a).pc = "idle" /\ NoJob(a).target = a
         /\ NoJob(a).role = NoRole /\ NoJob(a).seen = NoRole /\ NoJob(a).supers = Uncounted
<1>1. Uncounted \in (SUBSET Admins) \cup {{NoRole}} BY DEF Uncounted
<1>2. QED BY <1>1, AdminNames DEF NoJob, AdminJob

(* A handler takes up a record, and the accounts and roles keep types.     *)
LEMMA JobTaken ==
  ASSUME AdminInv, NEW c \in AdminCalls, NEW r \in AdminJob, Counted(r),
         job' = [job EXCEPT ![c] = r],
         roleOf' \in [Admins -> Roles \cup {NoRole}], roles' \subseteq Roles,
         invite' \in [Admins -> Roles \cup {NoRole, NoInvite}]
  PROVE  AdminInv'
<1>1. job' \in [AdminCalls -> AdminJob] /\ \A d \in AdminCalls : job'[d] \in {job[d], r}
  BY DEF AdminInv, AdminTypeOK
<1>2. QED BY <1>1 DEF AdminInv, AdminTypeOK

(* The same for a handler that is done, or goes to a step with no write of *)
(* a role ahead.                                                           *)
LEMMA JobMoved ==
  ASSUME AdminInv, NEW c \in AdminCalls, NEW pc \in AdminPCs, pc \notin {"assign", "delete"},
         AdminGoto(c, pc) \/ AdminDone(c),
         roleOf' \in [Admins -> Roles \cup {NoRole}], roles' \subseteq Roles,
         invite' \in [Admins -> Roles \cup {NoRole, NoInvite}]
  PROVE  AdminInv'
<1>1. CASE AdminDone(c)
  <2>1. NoJob(NoAdmin) \in AdminJob /\ Counted(NoJob(NoAdmin)) BY NoJobRecord DEF Counted
  <2>2. job' = [job EXCEPT ![c] = NoJob(NoAdmin)] BY <1>1 DEF AdminDone
  <2>3. QED BY <2>1, <2>2, JobTaken
<1>2. CASE AdminGoto(c, pc)
  <2> DEFINE r == [job[c] EXCEPT !.pc = pc]
  <2>1. job[c] \in AdminJob BY DEF AdminInv, AdminTypeOK
  <2>2. r \in AdminJob /\ r.pc = pc BY <2>1 DEF AdminJob
  <2>3. job' = [job EXCEPT ![c] = r] BY <1>2 DEF AdminGoto
  <2> HIDE DEF r
  <2>4. Counted(r) BY <2>2 DEF Counted
  <2>5. QED BY <2>2, <2>3, <2>4, JobTaken
<1>3. QED BY <1>1, <1>2

(* A handler begins. *)
LEMMA JobBegun ==
  ASSUME AdminInv, NEW c \in AdminCalls, NEW a \in Admins \cup {NoAdmin},
         NEW r \in Roles \cup {NoRole}, NEW seen \in Roles \cup {NoRole}, NEW pc \in AdminPCs,
         job' = [job EXCEPT ![c] = [NoJob(a) EXCEPT !.pc = pc, !.role = r, !.seen = seen]],
         pc \notin {"assign", "delete"} \/ seen # Super \/ r = Super, pc # "delete",
         UNCHANGED <<roleOf, roles, invite>>
  PROVE  AdminInv'
<1> DEFINE j == [NoJob(a) EXCEPT !.pc = pc, !.role = r, !.seen = seen]
<1>1. NoJob(a) \in AdminJob BY NoJobRecord
<1>2. j \in AdminJob /\ j.pc = pc /\ j.role = r /\ j.seen = seen BY <1>1 DEF AdminJob
<1>3. job' = [job EXCEPT ![c] = j] OBVIOUS
<1> HIDE DEF j
<1>4. Counted(j) BY <1>2 DEF Counted
<1>5. QED BY <1>2, <1>3, <1>4, JobTaken DEF AdminInv, AdminTypeOK

(* The types of what an action writes outside the handlers' records. *)
LEMMA RolesWritten ==
  ASSUME AdminInv, NEW c \in AdminCalls, NEW r \in Roles \cup {NoRole}
  PROVE  /\ job[c] \in AdminJob /\ job[c].role \in Roles \cup {NoRole}
         /\ [roleOf EXCEPT ![job[c].target] = r] \in [Admins -> Roles \cup {NoRole}]
<1>1. job[c] \in AdminJob BY DEF AdminInv, AdminTypeOK
<1>2. roleOf \in [Admins -> Roles \cup {NoRole}] BY DEF AdminInv, AdminTypeOK
<1>3. job[c].role \in Roles \cup {NoRole} BY <1>1 DEF AdminJob
<1>4. QED BY <1>1, <1>2, <1>3

LEMMA InviteWritten ==
  ASSUME AdminInv, NEW a, NEW r \in Roles \cup {NoRole, NoInvite}
  PROVE  [invite EXCEPT ![a] = r] \in [Admins -> Roles \cup {NoRole, NoInvite}]
BY DEF AdminInv, AdminTypeOK

LEMMA AdminStart == AdminInit => AdminInv
<1> SUFFICES ASSUME AdminInit PROVE AdminInv
  OBVIOUS
<1>1. NoJob(NoAdmin) \in AdminJob /\ Counted(NoJob(NoAdmin)) BY NoJobRecord DEF Counted
<1>2. roleOf \in [Admins -> Roles \cup {NoRole}] BY AdministratorsAssumption DEF AdminInit
<1>3. roles \subseteq Roles BY AdministratorsAssumption DEF AdminInit
<1>4. invite \in [Admins -> Roles \cup {NoRole, NoInvite}] BY DEF AdminInit
<1>5. job = [c \in AdminCalls |-> NoJob(NoAdmin)] BY DEF AdminInit
<1> HIDE DEF AdminInit
<1>6. QED BY <1>1, <1>2, <1>3, <1>4, <1>5 DEF AdminInv, AdminTypeOK

(* Accounts and invitations. *)
LEMMA AccountsKeep ==
  ASSUME AdminInv, NEW c \in AdminCalls,
         InsertAdmin(c) \/ UpsertAdminInvite(c) \/ DropInvite(c)
  PROVE  AdminInv'
<1>0. AdminTypeOK BY DEF AdminInv
<1>1. CASE InsertAdmin(c)
  <2> DEFINE pc == IF job[c].pc = "insert" THEN "tidy" ELSE "settle"
  <2>1. pc \in AdminPCs /\ pc \notin {"assign", "delete"} BY AdminNames
  <2>2. AdminGoto(c, pc) \/ AdminDone(c) BY <1>1 DEF InsertAdmin
  <2>3. roleOf' = [roleOf EXCEPT ![job[c].target] = job[c].role] \/ roleOf' = roleOf
    BY <1>1 DEF InsertAdmin
  <2>4. job[c].role \in Roles \cup {NoRole} BY AdministratorsAssumption, RolesWritten
  <2>5. roleOf' \in [Admins -> Roles \cup {NoRole}]
    BY <1>0, <2>3, <2>4, RolesWritten DEF AdminTypeOK
  <2>6. UNCHANGED <<roles, invite>> BY <1>1 DEF InsertAdmin
  <2> HIDE DEF pc
  <2>7. QED BY <1>0, <2>1, <2>2, <2>5, <2>6, JobMoved DEF AdminTypeOK
<1>2. CASE UpsertAdminInvite(c)
  <2>1. job[c].role \in Roles \cup {NoRole} BY AdministratorsAssumption, RolesWritten
  <2>2. invite' = [invite EXCEPT ![job[c].target] = job[c].role] \/ invite' = invite
    BY <1>2 DEF UpsertAdminInvite
  <2>3. invite' \in [Admins -> Roles \cup {NoRole, NoInvite}]
    BY <1>0, <2>1, <2>2, InviteWritten DEF AdminTypeOK
  <2>4. AdminDone(c) /\ UNCHANGED <<roleOf, roles>> BY <1>2 DEF UpsertAdminInvite
  <2>5. QED BY <1>0, <2>3, <2>4, AdminNames, JobMoved DEF AdminTypeOK
<1>3. CASE DropInvite(c)
  <2>1. invite' = [invite EXCEPT ![job[c].target] = NoInvite] \/ invite' = invite
    BY <1>3 DEF DropInvite
  <2>2. invite' \in [Admins -> Roles \cup {NoRole, NoInvite}]
    BY <1>0, <2>1, InviteWritten DEF AdminTypeOK
  <2>3. AdminDone(c) /\ UNCHANGED <<roleOf, roles>> BY <1>3 DEF DropInvite
  <2>4. QED BY <1>0, <2>2, <2>3, AdminNames, JobMoved DEF AdminTypeOK
<1>4. QED BY <1>1, <1>2, <1>3

(* Counting, assigning and deleting. *)
LEMMA CountingKeeps ==
  ASSUME AdminInv, NEW c \in AdminCalls, CountSupers(c)
  PROVE  AdminInv'
<1>0. AdminTypeOK BY DEF AdminInv
<1>1. UNCHANGED <<roleOf, roles, invite>> BY DEF CountSupers
<1>2. CASE Cardinality(Supers) <= 1
  <2>1. AdminDone(c) BY <1>2 DEF CountSupers
  <2>2. QED BY <1>0, <1>1, <2>1, AdminNames, JobMoved DEF AdminTypeOK
<1>3. CASE ~(Cardinality(Supers) <= 1)
  <2> DEFINE pc == IF job[c].role = NoRole THEN "delete" ELSE "assign"
             r  == [job[c] EXCEPT !.supers = Supers, !.pc = pc]
  <2>1. job[c] \in AdminJob BY <1>0 DEF AdminTypeOK
  <2>2. pc \in AdminPCs /\ (pc = "delete" => job[c].role = NoRole) BY AdminNames
  <2>3. job' = [job EXCEPT ![c] = r] BY <1>0, <1>3 DEF CountSupers, AdminTypeOK
  <2> HIDE DEF pc
  <2>4. Supers \in SUBSET Admins BY DEF Supers
  <2>5. r \in AdminJob /\ r.supers = Supers /\ r.pc = pc /\ r.role = job[c].role
    BY <2>1, <2>2, <2>4 DEF AdminJob
  <2> HIDE DEF r
  <2>6. Counted(r) BY <1>3, <2>2, <2>5 DEF Counted
  <2>7. QED BY <1>0, <1>1, <2>3, <2>5, <2>6, JobTaken DEF AdminTypeOK
<1>4. QED BY <1>2, <1>3

LEMMA WritesKeep ==
  ASSUME AdminInv, NEW c \in AdminCalls, WriteAssignment(c) \/ EraseAccount(c)
  PROVE  AdminInv'
<1>0. AdminTypeOK BY DEF AdminInv
<1>1. AdminDone(c) /\ UNCHANGED <<roles, invite>> BY DEF WriteAssignment, EraseAccount
<1>2. \/ roleOf' = [roleOf EXCEPT ![job[c].target] = job[c].role]
      \/ roleOf' = [roleOf EXCEPT ![job[c].target] = NoRole]
      \/ roleOf' = roleOf
  BY DEF WriteAssignment, EraseAccount
<1>3. job[c].role \in Roles \cup {NoRole} BY RolesWritten
<1>4. roleOf' \in [Admins -> Roles \cup {NoRole}]
  BY <1>0, <1>2, <1>3, RolesWritten DEF AdminTypeOK
<1>5. QED BY <1>0, <1>1, <1>4, AdminNames, JobMoved DEF AdminTypeOK

LEMMA BeginningsKeep ==
  ASSUME AdminInv, NEW c \in AdminCalls, NEW a \in Admins, NEW r \in Roles,
         \/ CreateAccount(c, a, r) \/ AssignRole(c, a, r) \/ DeleteAccount(c, a)
         \/ AcceptAdminInvite(c, a) \/ DeleteRole(c, r)
  PROVE  AdminInv'
<1>0. AdminTypeOK BY DEF AdminInv
<1>1. UNCHANGED <<roleOf, roles, invite>>
  BY DEF CreateAccount, AssignRole, DeleteAccount, AcceptAdminInvite, DeleteRole
<1>2. ASSUME NEW b \in Admins \cup {NoAdmin}, NEW q \in Roles \cup {NoRole},
             NEW pc \in AdminPCs, pc \notin {"assign", "delete"}, AdminBegin(c, pc, b, q)
      PROVE  AdminInv'
  <2> DEFINE k == [NoJob(b) EXCEPT !.pc = pc, !.role = q]
  <2>1. NoJob(b) \in AdminJob BY NoJobRecord
  <2>2. k \in AdminJob /\ k.pc = pc BY <2>1 DEF AdminJob
  <2>3. job' = [job EXCEPT ![c] = k] BY <1>2 DEF AdminBegin
  <2> HIDE DEF k
  <2>4. Counted(k) BY <1>2, <2>2 DEF Counted
  <2>5. QED BY <1>0, <1>1, <2>2, <2>3, <2>4, JobTaken DEF AdminTypeOK
<1>3. CASE CreateAccount(c, a, r)
  <2>1. PICK pc \in {"insert", "upsert"} : AdminBegin(c, pc, a, r) BY <1>3 DEF CreateAccount
  <2>2. pc \in AdminPCs /\ pc \notin {"assign", "delete"} BY AdminNames
  <2>3. QED BY <1>2, <2>1, <2>2
<1>4. CASE AssignRole(c, a, r)
  <2> DEFINE seen == roleOf[a]
             pc   == IF seen = Super /\ r # Super THEN "count" ELSE "assign"
  <2>1. pc \in AdminPCs /\ seen \in Roles \cup {NoRole}
    BY <1>0, AdminNames DEF AdminTypeOK
  <2>2. job' = [job EXCEPT ![c] = [NoJob(a) EXCEPT !.pc = pc, !.role = r, !.seen = seen]]
    BY <1>4 DEF AssignRole
  <2>3. pc # "delete" /\ (pc \notin {"assign", "delete"} \/ seen # Super \/ r = Super) OBVIOUS
  <2> HIDE DEF pc, seen
  <2>4. QED BY <1>1, <2>1, <2>2, <2>3, JobBegun
<1>5. CASE DeleteAccount(c, a)
  <2> DEFINE seen == roleOf[a]
             pc   == IF seen = Super THEN "count" ELSE "delete"
             k    == [NoJob(a) EXCEPT !.pc = pc, !.seen = seen]
  <2>1. pc \in AdminPCs /\ seen \in Roles \cup {NoRole}
    BY <1>0, AdminNames DEF AdminTypeOK
  <2>2. job' = [job EXCEPT ![c] = k] BY <1>5 DEF DeleteAccount
  <2>3. pc \notin {"assign", "delete"} \/ seen # Super OBVIOUS
  <2> HIDE DEF pc, seen
  <2>4. NoJob(a) \in AdminJob BY NoJobRecord
  <2>5. k \in AdminJob /\ k.pc = pc /\ k.seen = seen /\ k.role = NoRole
    BY <2>1, <2>4, NoJobRecord DEF AdminJob
  <2> HIDE DEF k
  <2>6. Counted(k) BY <2>3, <2>5 DEF Counted
  <2>7. QED BY <1>0, <1>1, <2>2, <2>5, <2>6, JobTaken DEF AdminTypeOK
<1>6. CASE AcceptAdminInvite(c, a)
  <2> DEFINE pc == IF roleOf[a] = NoRole THEN "accept" ELSE "clean"
             q  == IF invite[a] = NoRole THEN Member ELSE invite[a]
  <2>1. pc \in AdminPCs /\ pc \notin {"assign", "delete"} BY AdminNames
  <2>2. invite[a] \in Roles \cup {NoRole, NoInvite} /\ invite[a] # NoInvite
    BY <1>0, <1>6 DEF AdminTypeOK, AcceptAdminInvite
  <2>3. q \in Roles \cup {NoRole} BY <2>2, AdministratorsAssumption
  <2>4. AdminBegin(c, pc, a, q) BY <1>6 DEF AcceptAdminInvite
  <2> HIDE DEF pc, q
  <2>5. QED BY <1>2, <2>1, <2>3, <2>4
<1>7. CASE DeleteRole(c, r)
  <2>1. AdminBegin(c, "erase", NoAdmin, r) BY <1>7 DEF DeleteRole
  <2>2. QED BY <1>2, <2>1, AdminNames
<1>8. QED BY <1>3, <1>4, <1>5, <1>6, <1>7

(* A change outside the handlers. *)
LEMMA Aside ==
  ASSUME AdminInv, job' = job, roleOf' \in [Admins -> Roles \cup {NoRole}],
         roles' \subseteq Roles, invite' \in [Admins -> Roles \cup {NoRole, NoInvite}]
  PROVE  AdminInv'
BY DEF AdminInv, AdminTypeOK

LEMMA AdminStep == AdminInv /\ [AdminNext]_adminVars => AdminInv'
<1> SUFFICES ASSUME AdminInv, [AdminNext]_adminVars PROVE AdminInv'
  OBVIOUS
<1>0. AdminTypeOK BY DEF AdminInv
<1>1. CASE UNCHANGED adminVars
  BY <1>0, <1>1, Aside DEF adminVars, AdminTypeOK
<1>2. ASSUME NEW c \in AdminCalls, AccountStep(c) PROVE AdminInv'
  BY <1>2, AccountsKeep, CountingKeeps, WritesKeep DEF AccountStep
<1>3. ASSUME NEW c \in AdminCalls, DropRole(c) PROVE AdminInv'
  <2>1. AdminDone(c) /\ UNCHANGED roleOf BY <1>3 DEF DropRole
  <2>2. roles' \subseteq Roles BY <1>0, <1>3 DEF DropRole, AdminTypeOK
  <2>3. \/ invite' = [a \in Admins |-> IF invite[a] = job[c].role THEN NoRole ELSE invite[a]]
        \/ invite' = invite
    BY <1>3 DEF DropRole
  <2>4. invite' \in [Admins -> Roles \cup {NoRole, NoInvite}] BY <1>0, <2>3 DEF AdminTypeOK
  <2>5. QED BY <1>0, <2>1, <2>2, <2>4, AdminNames, JobMoved DEF AdminTypeOK
<1>4. ASSUME NEW c \in AdminCalls, AdminAbandon(c) PROVE AdminInv'
  <2>1. AdminDone(c) /\ UNCHANGED <<roleOf, roles, invite>> BY <1>4 DEF AdminAbandon
  <2>2. QED BY <1>0, <2>1, AdminNames, JobMoved DEF AdminTypeOK
<1>5. ASSUME NEW c \in AdminCalls, NEW a \in Admins, NEW r \in Roles,
             CreateAccount(c, a, r) \/ AssignRole(c, a, r)
      PROVE  AdminInv'
  BY <1>5, BeginningsKeep
<1>6. ASSUME NEW c \in AdminCalls, NEW a \in Admins, AcceptAdminInvite(c, a) \/ DeleteAccount(c, a)
      PROVE  AdminInv'
  BY <1>6, BeginningsKeep, AdministratorsAssumption
<1>7. ASSUME NEW a \in Admins, RevokeAdminInvite(a) PROVE AdminInv'
  <2>1. invite' = [invite EXCEPT ![a] = NoInvite] BY <1>7 DEF RevokeAdminInvite
  <2>2. invite' \in [Admins -> Roles \cup {NoRole, NoInvite}] BY <2>1, InviteWritten
  <2>3. UNCHANGED <<roleOf, roles, job>> BY <1>7 DEF RevokeAdminInvite
  <2>4. QED BY <1>0, <2>2, <2>3, Aside DEF AdminTypeOK
<1>8. ASSUME NEW a \in Admins, Boot(a) PROVE AdminInv'
  <2>1. roles' \subseteq Roles BY <1>0, <1>8, AdministratorsAssumption DEF Boot, AdminTypeOK
  <2>2. roleOf' = [roleOf EXCEPT ![a] = Super] \/ roleOf' = roleOf BY <1>8 DEF Boot
  <2>3. roleOf' \in [Admins -> Roles \cup {NoRole}]
    BY <1>0, <2>2, AdministratorsAssumption DEF AdminTypeOK
  <2>4. UNCHANGED <<invite, job>> BY <1>8 DEF Boot
  <2>5. QED BY <1>0, <2>1, <2>3, <2>4, Aside DEF AdminTypeOK
<1>9. ASSUME NEW c \in AdminCalls, NEW r \in Roles, DeleteRole(c, r) PROVE AdminInv'
  <2>1. CASE Admins = {}
    <3>1. AdminBegin(c, "erase", NoAdmin, r) /\ UNCHANGED <<roleOf, roles, invite>>
      BY <1>9 DEF DeleteRole
    <3> DEFINE k == [NoJob(NoAdmin) EXCEPT !.pc = "erase", !.role = r]
    <3>2. NoJob(NoAdmin) \in AdminJob BY NoJobRecord
    <3>3. k \in AdminJob /\ k.pc = "erase" BY <3>2, AdminNames DEF AdminJob
    <3>4. job' = [job EXCEPT ![c] = k] BY <3>1 DEF AdminBegin
    <3> HIDE DEF k
    <3>5. Counted(k) BY <3>3 DEF Counted
    <3>6. QED BY <1>0, <3>1, <3>3, <3>4, <3>5, JobTaken DEF AdminTypeOK
  <2>2. CASE Admins # {} BY <1>9, <2>2, BeginningsKeep
  <2>3. QED BY <2>1, <2>2
<1>10. ASSUME NEW r \in Roles, CreateRole(r) PROVE AdminInv'
  BY <1>0, <1>10, Aside DEF CreateRole, AdminTypeOK
<1>11. QED
  BY <1>1, <1>2, <1>3, <1>4, <1>5, <1>6, <1>7, <1>8, <1>9, <1>10 DEF AdminNext

(* Who takes the role of the only super administrator was overtaken: it    *)
(* found another role, or counted more than one.                           *)
LEMMA LastOneOvertaken ==
  ASSUME AdminInv, NEW c \in AdminCalls, WriteAssignment(c) \/ EraseAccount(c),
         Supers # {}, Supers' = {}
  PROVE  job[c].pc \in {"assign", "delete"} /\ job'[c].pc = "idle" /\ Overtaken(c)
<1>0. AdminTypeOK BY DEF AdminInv
<1>1. job[c].pc \in {"assign", "delete"} /\ AdminDone(c)
  BY DEF WriteAssignment, EraseAccount
<1>2. job'[c].pc = "idle" BY <1>0, <1>1, NoJobRecord DEF AdminDone, AdminTypeOK
<1>3. \A a \in Admins : a # job[c].target => roleOf'[a] = roleOf[a]
  BY <1>0 DEF WriteAssignment, EraseAccount, AdminTypeOK
<1>4. Supers = {job[c].target} BY <1>3 DEF Supers
<1>5. roleOf[job[c].target] = Super BY <1>4 DEF Supers
<1>6. Cardinality(Supers) = 1 BY <1>4, FS_Singleton
<1>7. ASSUME ~Overtaken(c) PROVE FALSE
  <2>1. job[c].seen = Super BY <1>5, <1>7 DEF Overtaken
  <2>2. job[c].supers = Uncounted \/ job[c].supers = Supers BY <1>7 DEF Overtaken
  <2>3. Cardinality(job[c].supers) = 1 BY <1>6, <2>2, FS_Singleton DEF Uncounted
  <2>4. job[c].role # Super
    <3>1. CASE WriteAssignment(c)
      <4>1. job[c].target \in Admins BY <1>4 DEF Supers
      <4>2. roleOf'[job[c].target] # Super BY <4>1 DEF Supers
      <4>3. CASE roleOf' = roleOf BY <1>5, <4>2, <4>3
      <4>4. CASE roleOf' = [roleOf EXCEPT ![job[c].target] = job[c].role]
        BY <1>0, <4>1, <4>2, <4>4 DEF AdminTypeOK
      <4>5. QED BY <3>1, <4>3, <4>4 DEF WriteAssignment
    <3>2. CASE EraseAccount(c)
      <4>1. job[c].role = NoRole BY <3>2 DEF EraseAccount, AdminInv, Counted
      <4>2. QED BY <4>1, AdministratorsAssumption
    <3>3. QED BY <3>1, <3>2
  <2>5. ~(Cardinality(job[c].supers) <= 1) BY <1>1, <2>1, <2>4 DEF AdminInv, Counted
  <2>6. QED BY <2>3, <2>5
<1>8. QED BY <1>1, <1>2, <1>7

(* No other action leaves the console without a super administrator.       *)
LEMMA LastOneStep ==
  ASSUME AdminInv, [AdminNext]_adminVars, Supers # {}, Supers' = {}
  PROVE  \E c \in AdminCalls : /\ job[c].pc \in {"assign", "delete"} /\ job'[c].pc = "idle"
                               /\ Overtaken(c)
<1>0. AdminTypeOK BY DEF AdminInv
<1>1. roleOf' # roleOf BY DEF Supers
<1>2. ~\E b \in Admins : roleOf[b] = Super /\ roleOf'[b] = Super BY DEF Supers
<1>3. PICK b \in Admins : roleOf[b] = Super BY DEF Supers
<1>4. ASSUME NEW c \in AdminCalls, InsertAdmin(c) PROVE FALSE
  <2>1. roleOf[job[c].target] = NoRole /\ roleOf' = [roleOf EXCEPT ![job[c].target] = job[c].role]
    BY <1>1, <1>4 DEF InsertAdmin
  <2>2. b # job[c].target BY <1>3, <2>1, AdministratorsAssumption
  <2>3. roleOf'[b] = roleOf[b] BY <1>0, <2>1, <2>2 DEF AdminTypeOK
  <2>4. QED BY <1>2, <1>3, <2>3
<1>5. ASSUME NEW a \in Admins, Boot(a) PROVE FALSE
  BY <1>1, <1>3, <1>5, AdministratorsAssumption DEF Boot
<1>6. PICK c \in AdminCalls : WriteAssignment(c) \/ EraseAccount(c)
  BY <1>1, <1>4, <1>5
  DEF AdminNext, adminVars, AccountStep, UpsertAdminInvite, DropInvite, CountSupers, DropRole,
      AdminAbandon, CreateAccount, AssignRole, AcceptAdminInvite, DeleteAccount,
      RevokeAdminInvite, DeleteRole, CreateRole
<1>7. QED BY <1>6, LastOneOvertaken

(* The console loses its last super administrator only by a handler that   *)
(* was overtaken between its count and its write, for any number of        *)
(* administrators, roles and handlers.                                     *)
THEOREM LastSuperStays == AdminSpec => LastSuperKept
<1>1. AdminInit => AdminInv BY AdminStart
<1>2. AdminInv /\ [AdminNext]_adminVars => AdminInv' BY AdminStep
<1>3. AdminInv /\ [AdminNext]_adminVars =>
        [Supers # {} /\ Supers' = {} =>
           \E c \in AdminCalls : /\ job[c].pc \in {"assign", "delete"} /\ job'[c].pc = "idle"
                                 /\ Overtaken(c)]_adminVars
  BY LastOneStep
<1>4. QED BY <1>1, <1>2, <1>3, PTL DEF AdminSpec, LastSuperKept

(* The accounts, roles and handlers keep their types. *)
THEOREM AdminTypes == AdminSpec => []AdminTypeOK
<1>1. AdminInit => AdminInv BY AdminStart
<1>2. AdminInv /\ [AdminNext]_adminVars => AdminInv' BY AdminStep
<1>3. AdminInv => AdminTypeOK BY DEF AdminInv
<1>4. QED BY <1>1, <1>2, <1>3, PTL DEF AdminSpec

-----------------------------------------------------------------------------
(* The four components next to each other. *)

(* A behaviour in which one of the four moves is a behaviour of each: what *)
(* is proved of one of them holds of what the run of all four explores.    *)
THEOREM AccountsCompose == Spec => SessionsSpec /\ GrantsSpec /\ AdminSpec /\ FilesSpec
<1>1. Init => SessionsInit /\ GrantsInit /\ AdminInit /\ FilesInit BY DEF Init
<1>2. [Next]_accountVars => /\ [SessionsNext]_sessionsVars /\ [GrantsNext]_grantsVars
                            /\ [AdminNext]_adminVars /\ [FilesNext]_filesVars
  <2>1. ASSUME UNCHANGED accountVars
        PROVE  UNCHANGED sessionsVars /\ UNCHANGED grantsVars
               /\ UNCHANGED adminVars /\ UNCHANGED filesVars
    BY <2>1 DEF accountVars
  <2>2. QED BY <2>1 DEF Next
<1>3. QED BY <1>1, <1>2, PTL DEF Spec, SessionsSpec, GrantsSpec, AdminSpec, FilesSpec

(* The variables of the four keep their types. *)
LEMMA AccountsTyped == Spec => []TypeOK
<1>1. SessionsInv /\ GrantsInv /\ AdminInv /\ FilesInv => TypeOK
  BY DEF SessionsInv, GrantsInv, AdminInv, FilesInv, TypeOK
<1>2. QED
  BY <1>1, AccountsCompose, SessionsStart, SessionsStep, GrantsStart, GrantsStep,
     AdminStart, AdminStep, FilesStart, FilesStep, PTL
     DEF SessionsSpec, GrantsSpec, AdminSpec, FilesSpec

(* The four next to each other keep their types and what is promised of    *)
(* each: who signed out stays out, a changed password revokes, a request   *)
(* sees current grants, the console keeps a super administrator, and the   *)
(* picture a row names is stored.  For any tokens, processes, roles,       *)
(* administrators, pictures and handlers.                                  *)
THEOREM AccountsHold ==
  Spec => /\ [](TypeOK /\ NamedFileStored /\ GrantsCurrent)
          /\ SignedOutForGood /\ PasswordChangeRevokes /\ LastSuperKept
BY AccountsCompose, AccountsTyped, NamedFilesStored, GrantsAreCurrent, SignedOutStaysOut,
   PasswordRevokes, LastSuperStays, PTL
=============================================================================
