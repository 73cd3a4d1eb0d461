-------------------------- MODULE AttendanceProofs --------------------------
(***************************************************************************)
(* Theorems about the attendance of a meeting, for any tabs, any number of *)
(* handlers at the same time and any renderings, lost connections and      *)
(* reloads; and about the gateway, where it runs next to the waiting room. *)
(***************************************************************************)
EXTENDS MCGateway, KnockProofs

-----------------------------------------------------------------------------
(* The inductive invariant. *)

Acts(c, k, t) == talk[c].pc # "idle" /\ talk[c].kind = k /\ talk[c].tab = t

(* Who has a row that is not left, and was not put out, has a tab that is  *)
(* in the meeting, or has its row and enters, and takes no leave.          *)
Gone(t)   == \E c \in Talks : Acts(c, "bye", t) /\ talk[c].pc = "after"

Coming(t) == \E c \in Talks : Acts(c, "enter", t) /\ talk[c].pc \in {"token", "after"}

Accounted == present /\ ~unsaid => \E t \in Tabs : ~Gone(t) /\ (InMeeting(t) \/ Coming(t))

(* A page has a socket while it is in the meeting; one that has lost its   *)
(* connection is strayed, and a join is of a page that is in.              *)
BusyTabs == \A c \in Talks : talk[c].pc # "idle" => talk[c].tab \in Tabs

Paths ==
  \A c \in Talks :
    /\ talk[c].pc = "find" => talk[c].kind \in InKinds
    /\ talk[c].pc = "token" => talk[c].kind = "enter"

SocketsIn == \A t \in Tabs : sock[t] # "none" <=> InMeeting(t)

DownStrayed == \A t \in Tabs : sock[t] = "down" => t \in strayed

JoinsIn == \A c \in Talks, t \in Tabs : Acts(c, "join", t) /\ talk[c].live => InMeeting(t)

(* What is about to mark the user as left; and a join after all of that.   *)
Taking(c) == talk[c].kind \notin InKinds /\ talk[c].pc = "row"

Telling(j) ==
  /\ talk[j].kind = "join" /\ talk[j].pc \in {"find", "row"}
  /\ \A c \in Talks : Taking(c) => c \in talk[j].before

LeavingBy(t) == \E c \in Talks : Acts(c, "bye", t) /\ talk[c].live

PresenceInv ==
  over = "no" /\ ~shared /\ ~crossed =>
    \/ \E j \in Talks : Telling(j)
    \/ (present \/ kicked) /\ \A c \in Talks : ~Taking(c)
    \/ \A t \in Tabs : sock[t] = "up" /\ t \notin strayed => LeavingBy(t)

(* What is about to take the socket of t from the room; a join after that. *)
Quits(c, t) == Acts(c, "leave", t) /\ talk[c].live

Joining(j, t) ==
  /\ Acts(j, "join", t) /\ talk[j].live
  /\ \A c \in Talks : Quits(c, t) => c \in talk[j].before

RoomInv ==
  over # "announced" /\ ~crossed =>
    \A t \in Tabs : sock[t] = "up" /\ t \notin strayed =>
      (\E j \in Talks : Joining(j, t)) \/ (t \in inRoom /\ \A c \in Talks : ~Quits(c, t))

(* Once the end is announced: who stays was told; who still enters will    *)
(* not be.                                                                 *)
ToldInv ==
  /\ over = "announced" /\ ~crossed =>
       \A t \in Tabs : InMeeting(t) /\ t \notin strayed => sock[t] = "up" /\ t \in told
  /\ over = "announced" =>
       \A c \in Talks, t \in Tabs : Acts(c, "enter", t) /\ talk[c].pc # "find" => t \in strayed

AInv ==
  /\ AttendanceTypeOK /\ BusyTabs /\ Paths /\ SocketsIn /\ DownStrayed /\ JoinsIn
  /\ Accounted /\ PresenceInv /\ RoomInv /\ ToldInv

-----------------------------------------------------------------------------
(* What the ways of moving a handler do to the others. *)

LEMMA KindsAndPCs ==
  /\ "idle" \in TalkPCs /\ "find" \in TalkPCs /\ "row" \in TalkPCs
  /\ "token" \in TalkPCs /\ "after" \in TalkPCs
  /\ "enter" \in Kinds /\ "join" \in Kinds /\ "leave" \in Kinds
  /\ "gone" \in Kinds /\ "bye" \in Kinds
  /\ "enter" \in InKinds /\ "join" \in InKinds
  /\ "leave" \notin InKinds /\ "gone" \notin InKinds /\ "bye" \notin InKinds
BY DEF TalkPCs, Kinds, InKinds

LEMMA NoTalkFields ==
  NoTalk \in Talk /\ NoTalk.pc = "idle"
BY DEF NoTalk, Talk, TalkPCs, Kinds

LEMMA NewTalkFields ==
  ASSUME NEW k \in Kinds, NEW t \in Tabs, NEW pc \in TalkPCs
  PROVE  /\ NewTalk(k, t, pc) \in Talk
         /\ NewTalk(k, t, pc).pc = pc /\ NewTalk(k, t, pc).kind = k
         /\ NewTalk(k, t, pc).tab = t /\ NewTalk(k, t, pc).live
         /\ NewTalk(k, t, pc).before = Busy
BY DEF NewTalk, Talk, Busy

(* d stays as it is, but for the handlers of S it waits for no longer.     *)
Stays(d, S) ==
  /\ talk'[d].pc = talk[d].pc /\ talk'[d].kind = talk[d].kind
  /\ talk'[d].tab = talk[d].tab /\ talk'[d].live = talk[d].live
  /\ talk'[d].before = talk[d].before \ S

TalkTyped == talk \in [Talks -> Talk]

LEMMA GotoMoves ==
  ASSUME TalkTyped, NEW c \in Talks, NEW pc \in TalkPCs, TalkGoto(c, pc)
  PROVE  /\ TalkTyped'
         /\ talk'[c].pc = pc /\ talk'[c].kind = talk[c].kind
         /\ talk'[c].tab = talk[c].tab /\ talk'[c].live = talk[c].live
         /\ talk'[c].before = talk[c].before
         /\ \A d \in Talks : d # c => Stays(d, {})
<1>1. talk[c] \in Talk BY DEF TalkTyped
<1> DEFINE r == [talk[c] EXCEPT !.pc = pc]
<1>2. /\ r \in Talk /\ r.pc = pc /\ r.kind = talk[c].kind /\ r.tab = talk[c].tab
      /\ r.live = talk[c].live /\ r.before = talk[c].before
  BY <1>1 DEF Talk
<1>3. talk' = [talk EXCEPT ![c] = r] BY DEF TalkGoto
<1> HIDE DEF r
<1>4. QED BY <1>2, <1>3 DEF TalkTyped, Stays

LEMMA DoneMoves ==
  ASSUME TalkTyped, NEW c \in Talks, TalkDone(c)
  PROVE  /\ TalkTyped' /\ talk'[c].pc = "idle"
         /\ \A d \in Talks : d # c => Stays(d, {c})
<1>1. \A d \in Talks : d # c => talk'[d] = [talk[d] EXCEPT !.before = @ \ {c}]
  BY DEF TalkDone
<1>2. talk'[c] = NoTalk BY DEF TalkDone
<1>3. ASSUME NEW d \in Talks, d # c PROVE talk'[d] \in Talk /\ Stays(d, {c})
  <2> DEFINE b == talk[d].before \ {c}
             r == [talk[d] EXCEPT !.before = b]
  <2>1. talk[d] \in Talk /\ b \in SUBSET Talks BY DEF TalkTyped, Talk
  <2> HIDE DEF b
  <2>2. /\ r \in Talk /\ r.pc = talk[d].pc /\ r.kind = talk[d].kind
        /\ r.tab = talk[d].tab /\ r.live = talk[d].live /\ r.before = b
    BY <2>1 DEF Talk
  <2>3. talk'[d] = r BY <1>1, <1>3 DEF b
  <2> HIDE DEF r
  <2>4. QED BY <2>2, <2>3 DEF Stays, b
<1>4. \A d \in Talks : talk'[d] \in Talk BY <1>2, <1>3, NoTalkFields
<1>5. TalkTyped' BY <1>4 DEF TalkTyped, TalkDone
<1>6. QED BY <1>2, <1>3, <1>5, NoTalkFields

LEMMA NewMoves ==
  ASSUME TalkTyped, NEW c \in Free, NEW k \in Kinds, NEW t \in Tabs, NEW pc \in TalkPCs,
         talk' = [talk EXCEPT ![c] = NewTalk(k, t, pc)]
  PROVE  /\ TalkTyped' /\ c \in Talks /\ talk[c].pc = "idle"
         /\ talk'[c].pc = pc /\ talk'[c].kind = k /\ talk'[c].tab = t
         /\ talk'[c].live /\ talk'[c].before = Busy
         /\ \A d \in Talks : d # c => Stays(d, {})
<1> DEFINE r == NewTalk(k, t, pc)
<1>1. /\ r \in Talk /\ r.pc = pc /\ r.kind = k /\ r.tab = t /\ r.live /\ r.before = Busy
  BY NewTalkFields
<1>2. c \in Talks /\ talk[c].pc = "idle" BY DEF Free, Busy
<1> HIDE DEF r
<1>3. talk' = [talk EXCEPT ![c] = r] BY DEF r
<1>4. QED BY <1>1, <1>2, <1>3 DEF TalkTyped, Stays

LEMMA ReannounceMoves ==
  ASSUME TalkTyped, NEW t \in Tabs, Reannounce(t)
  PROVE  /\ TalkTyped'
         /\ \E c, d \in Talks :
              /\ c # d /\ talk[c].pc = "idle" /\ talk[d].pc = "idle"
              /\ talk'[c].pc = "row" /\ talk'[c].kind = "leave" /\ talk'[c].tab = t
              /\ talk'[c].live /\ talk'[c].before = Busy
              /\ talk'[d].pc = "find" /\ talk'[d].kind = "join" /\ talk'[d].tab = t
              /\ talk'[d].live /\ talk'[d].before = Busy \cup {c}
              /\ \A b \in Talks : b \notin {c, d} => Stays(b, {})
<1>1. PICK c \in Free, d \in Free :
        /\ c # d
        /\ talk' = [talk EXCEPT ![c] = NewTalk("leave", t, "row"),
                                ![d] = [NewTalk("join", t, "find") EXCEPT !.before = @ \cup {c}]]
  BY DEF Reannounce
<1> DEFINE q == NewTalk("leave", t, "row")
           n == NewTalk("join", t, "find")
           r == [n EXCEPT !.before = @ \cup {c}]
<1>2. /\ c \in Talks /\ d \in Talks /\ talk[c].pc = "idle" /\ talk[d].pc = "idle"
  BY DEF Free, Busy
<1>3. /\ q \in Talk /\ q.pc = "row" /\ q.kind = "leave" /\ q.tab = t /\ q.live
      /\ q.before = Busy
  BY NewTalkFields, KindsAndPCs
<1>4. /\ n \in Talk /\ n.pc = "find" /\ n.kind = "join" /\ n.tab = t /\ n.live
      /\ n.before = Busy
  BY NewTalkFields, KindsAndPCs
<1> HIDE DEF q, n
<1>5. /\ r \in Talk /\ r.pc = "find" /\ r.kind = "join" /\ r.tab = t /\ r.live
      /\ r.before = Busy \cup {c}
  BY <1>2, <1>4 DEF Talk
<1> HIDE DEF r
<1>6. talk' = [talk EXCEPT ![c] = q, ![d] = r] BY <1>1 DEF q, n, r
<1>7. TalkTyped' BY <1>2, <1>3, <1>5, <1>6 DEF TalkTyped
<1>8. talk'[c] = q /\ talk'[d] = r /\ \A b \in Talks : b \notin {c, d} => talk'[b] = talk[b]
  BY <1>1, <1>2, <1>6 DEF TalkTyped
<1>9. \A b \in Talks : b \notin {c, d} => Stays(b, {})
  BY <1>8 DEF Stays
<1>10. QED BY <1>1, <1>2, <1>3, <1>5, <1>7, <1>8, <1>9

(* A handler of the socket or the page of t goes on alone. *)
Orphaned(d, t, K) ==
  /\ talk'[d].pc = talk[d].pc /\ talk'[d].kind = talk[d].kind
  /\ talk'[d].tab = talk[d].tab
  /\ talk'[d].live => talk[d].live /\ ~(talk[d].tab = t /\ talk[d].kind \in K)
  /\ talk[d].live => talk'[d].live \/ (talk[d].tab = t /\ talk[d].kind \in K)

LEMMA CloseMoves ==
  ASSUME TalkTyped, NEW t \in Tabs, NEW K, NEW done \in SUBSET Talks, CloseSocket(t, K, done)
  PROVE  /\ TalkTyped'
         /\ \A d \in Talks :
              \/ d \in done /\ talk'[d].pc = "idle"
              \/ talk[d].pc = "idle" /\ talk'[d].pc = "row" /\ talk'[d].kind = "gone"
                                     /\ talk'[d].tab = t
              \/ d \notin done /\ Orphaned(d, t, K) /\ talk'[d].before = talk[d].before \ done
<1> DEFINE Closed(c) == talk[c].tab = t /\ talk[c].kind \in K
           f == [c \in Talks |-> IF c \in done THEN NoTalk
                                 ELSE [talk[c] EXCEPT !.live = @ /\ ~Closed(c), !.before = @ \ done]]
           n == NewTalk("gone", t, "row")
           r == [n EXCEPT !.before = @ \ done]
<1>1. \/ talk' = f
      \/ \E c \in Free : talk' = [f EXCEPT ![c] = r]
  BY DEF CloseSocket
<1>2. /\ n \in Talk /\ n.pc = "row" /\ n.kind = "gone" /\ n.tab = t
  BY NewTalkFields, KindsAndPCs
<1> HIDE DEF n
<1>3. r \in Talk /\ r.pc = "row" /\ r.kind = "gone" /\ r.tab = t
  BY <1>2 DEF Talk
<1> HIDE DEF r
<1>4. ASSUME NEW d \in Talks, d \notin done
      PROVE  /\ f[d] \in Talk /\ f[d].pc = talk[d].pc /\ f[d].kind = talk[d].kind
             /\ f[d].tab = talk[d].tab /\ f[d].before = talk[d].before \ done
             /\ f[d].live = (talk[d].live /\ ~Closed(d))
  <2> DEFINE b == talk[d].live /\ ~Closed(d)
  <2>1. f[d] = [talk[d] EXCEPT !.live = b, !.before = talk[d].before \ done]
    BY <1>4
  <2>2. talk[d] \in Talk /\ b \in BOOLEAN BY DEF TalkTyped, Talk
  <2> HIDE DEF b
  <2>3. f[d] \in Talk /\ f[d].live = b /\ f[d].pc = talk[d].pc /\ f[d].kind = talk[d].kind
        /\ f[d].tab = talk[d].tab /\ f[d].before = talk[d].before \ done
    BY <2>1, <2>2 DEF Talk
  <2>4. QED BY <2>3 DEF b
<1>5. ASSUME NEW d \in done PROVE d \in Talks /\ f[d] = NoTalk
  OBVIOUS
<1>6. f \in [Talks -> Talk]
  BY <1>4, <1>5, NoTalkFields
<1>7. \A d \in Talks : f[d] = talk'[d] =>
        \/ d \in done /\ talk'[d].pc = "idle"
        \/ d \notin done /\ Orphaned(d, t, K) /\ talk'[d].before = talk[d].before \ done
  <2> SUFFICES ASSUME NEW d \in Talks, f[d] = talk'[d]
               PROVE  \/ d \in done /\ talk'[d].pc = "idle"
                      \/ d \notin done /\ Orphaned(d, t, K) /\ talk'[d].before = talk[d].before \ done
    OBVIOUS
  <2> HIDE DEF f
  <2>1. CASE d \in done BY <1>5, <2>1, NoTalkFields
  <2>2. CASE d \notin done
    <3>1. /\ talk'[d].pc = talk[d].pc /\ talk'[d].kind = talk[d].kind
          /\ talk'[d].tab = talk[d].tab /\ talk'[d].before = talk[d].before \ done
          /\ talk'[d].live = (talk[d].live /\ ~Closed(d))
      BY <1>4, <2>2
    <3>2. QED BY <2>2, <3>1 DEF Orphaned
  <2>3. QED BY <2>1, <2>2
<1> HIDE DEF f
<1>8. CASE talk' = f
  BY <1>6, <1>7, <1>8 DEF TalkTyped
<1>9. CASE \E c \in Free : talk' = [f EXCEPT ![c] = r]
  <2>1. PICK c \in Free : talk' = [f EXCEPT ![c] = r] BY <1>9
  <2>2. c \in Talks /\ talk[c].pc = "idle" BY DEF Free, Busy
  <2>3. TalkTyped' BY <1>3, <1>6, <2>1 DEF TalkTyped
  <2>4. talk'[c] = r /\ \A d \in Talks : d # c => talk'[d] = f[d]
    BY <1>6, <2>1, <2>2
  <2>5. QED BY <1>3, <1>7, <2>2, <2>3, <2>4
<1>10. QED BY <1>1, <1>8, <1>9

-----------------------------------------------------------------------------
(* The steps of a handler. *)

LEMMA Unpacked ==
  AInv => /\ AttendanceTypeOK /\ BusyTabs /\ Paths /\ SocketsIn /\ DownStrayed /\ JoinsIn
          /\ Accounted /\ PresenceInv /\ RoomInv /\ ToldInv /\ TalkTyped
BY DEF AInv, AttendanceTypeOK, TalkTyped

(* The other tabs of the user are out, or the going is shared. *)
LEMMA AloneThere ==
  ASSUME AInv, NEW t \in Tabs, ~OtherIn(t)
  PROVE  \A u \in Tabs : u # t => ~InMeeting(u) /\ sock[u] = "none"
BY Unpacked DEF OtherIn, SocketsIn

(* A handler that goes on, and may write the row. *)
LEMMA GotoKeeps ==
  ASSUME AInv, NEW c \in Talks, NEW pc \in TalkPCs \ {"idle", "find"},
         talk[c].pc # "idle", talk[c].pc = "find" => over # "announced",
         pc = "token" => talk[c].kind = "enter",
         TalkGoto(c, pc), UNCHANGED <<over, pages, store, sock, inRoom, told, strayed, shared>>,
         upsets' \in 0..MaxUpsets, present' \in BOOLEAN, unsaid' \in BOOLEAN, kicked' \in BOOLEAN,
         crossed' \in BOOLEAN, crossed => crossed'
  PROVE  /\ AttendanceTypeOK' /\ BusyTabs' /\ Paths' /\ SocketsIn' /\ DownStrayed' /\ JoinsIn'
         /\ RoomInv' /\ ToldInv'
<1>1. /\ TalkTyped'
      /\ talk'[c].pc = pc /\ talk'[c].kind = talk[c].kind
      /\ talk'[c].tab = talk[c].tab /\ talk'[c].live = talk[c].live
      /\ talk'[c].before = talk[c].before
      /\ \A d \in Talks : d # c => Stays(d, {})
  BY GotoMoves, Unpacked
<1>2. \A d \in Talks :
        /\ (talk'[d].pc = "idle") <=> (talk[d].pc = "idle")
        /\ talk'[d].kind = talk[d].kind /\ talk'[d].tab = talk[d].tab
        /\ talk'[d].live <=> talk[d].live
        /\ talk'[d].before = talk[d].before
  BY <1>1 DEF Stays
<1>3. AttendanceTypeOK' BY <1>1, Unpacked DEF AttendanceTypeOK, TalkTyped
<1>4. BusyTabs' /\ Paths'
  BY <1>1, <1>2, Unpacked DEF BusyTabs, Paths, Stays
<1>5. SocketsIn' /\ DownStrayed' BY Unpacked DEF SocketsIn, DownStrayed, InMeeting
<1>6. JoinsIn' BY <1>2, Unpacked DEF JoinsIn, Acts, InMeeting
<1>7. \A d \in Talks, t \in Tabs : (Quits(d, t)' <=> Quits(d, t)) /\ (Joining(d, t)' <=> Joining(d, t))
  BY <1>2 DEF Quits, Joining, Acts
<1>8. RoomInv' BY <1>7, Unpacked DEF RoomInv
<1>9. ToldInv'
  <2>1. over' = "announced" /\ ~crossed' =>
          \A t \in Tabs : InMeeting(t)' /\ t \notin strayed' => sock'[t] = "up" /\ t \in told'
    BY Unpacked DEF ToldInv, InMeeting
  <2>2. over' = "announced" =>
          \A d \in Talks, t \in Tabs : Acts(d, "enter", t)' /\ talk'[d].pc # "find" => t \in strayed'
    BY <1>1, <1>2, Unpacked DEF ToldInv, Acts, Stays
  <2>3. QED BY <2>1, <2>2 DEF ToldInv
<1>10. QED BY <1>3, <1>4, <1>5, <1>6, <1>8, <1>9

(* A handler that ends. *)
LEMMA DoneKeeps ==
  ASSUME AInv, NEW c \in Talks, talk[c].pc # "idle", TalkDone(c),
         UNCHANGED <<over, pages, store, sock, inRoom, told, kicked>>, upsets' \in 0..MaxUpsets,
         crossed' \in BOOLEAN, crossed => crossed', shared' \in BOOLEAN, shared => shared',
         strayed' \in SUBSET Tabs, strayed \subseteq strayed',
         present' \in BOOLEAN, unsaid' \in BOOLEAN,
         talk[c].kind = "join" => over = "announced" \/ talk[c].tab \in strayed',
         talk[c].kind = "join" =>
           over # "no" \/ shared' \/ \A u \in Tabs \ {talk[c].tab} : sock[u] = "none",
         ~(talk[c].kind = "bye" /\ talk[c].live),
         present' = present \/ Taking(c),
         present' /\ ~unsaid' =>
           present /\ ~unsaid /\ (talk[c].kind # "enter" \/ talk[c].pc \in {"find", "row"})
  PROVE  AInv'
<1>1. TalkTyped' /\ talk'[c].pc = "idle" /\ \A d \in Talks : d # c => Stays(d, {c})
  BY DoneMoves, Unpacked
<1>2. \A d \in Talks : talk'[d].pc # "idle" =>
        /\ d # c /\ talk'[d].pc = talk[d].pc
        /\ talk'[d].kind = talk[d].kind /\ talk'[d].tab = talk[d].tab
        /\ talk'[d].live <=> talk[d].live
        /\ talk'[d].before = talk[d].before \ {c}
  BY <1>1 DEF Stays
<1>3. \A d \in Talks : d # c =>
        /\ talk'[d].pc = talk[d].pc
        /\ talk'[d].kind = talk[d].kind /\ talk'[d].tab = talk[d].tab
        /\ talk'[d].live <=> talk[d].live
        /\ talk'[d].before = talk[d].before \ {c}
  BY <1>1 DEF Stays
<1>4. AttendanceTypeOK' BY <1>1, Unpacked DEF AttendanceTypeOK, TalkTyped
<1>5. BusyTabs' /\ Paths' BY <1>1, <1>2, Unpacked DEF BusyTabs, Paths
<1>6. SocketsIn' /\ DownStrayed' BY Unpacked DEF SocketsIn, DownStrayed, InMeeting
<1>7. JoinsIn' BY <1>2, Unpacked DEF JoinsIn, Acts, InMeeting
<1>8. Accounted'
  <2>1. SUFFICES ASSUME present', ~unsaid'
                 PROVE  \E t \in Tabs : ~Gone(t)' /\ (InMeeting(t)' \/ Coming(t)')
    BY DEF Accounted
  <2>2. PICK t \in Tabs : ~Gone(t) /\ (InMeeting(t) \/ Coming(t))
    BY <2>1, Unpacked DEF Accounted
  <2>3. ~Gone(t)' BY <1>2, <2>2 DEF Gone, Acts
  <2>4. InMeeting(t) => InMeeting(t)' BY DEF InMeeting
  <2>5. Coming(t) => Coming(t)' BY <1>3, <2>1 DEF Coming, Acts
  <2>6. QED BY <2>2, <2>3, <2>4, <2>5
<1>9. \A d \in Talks : Taking(d)' => Taking(d) /\ d # c
  BY <1>2 DEF Taking
<1>10. PresenceInv'
  <2>1. SUFFICES ASSUME over = "no", ~shared', ~crossed' PROVE
          \/ \E j \in Talks : Telling(j)'
          \/ (present' \/ kicked') /\ \A d \in Talks : ~Taking(d)'
          \/ \A t \in Tabs : sock'[t] = "up" /\ t \notin strayed' => LeavingBy(t)'
    BY DEF PresenceInv
  <2>2. CASE \E j \in Talks : Telling(j)
    <3>1. PICK j \in Talks : Telling(j) BY <2>2
    <3>2. CASE j # c
      <4>1. Telling(j)' BY <1>3, <1>9, <3>1, <3>2 DEF Telling
      <4>2. QED BY <4>1
    <3>3. CASE j = c
      <4>1. talk[c].kind = "join" BY <3>1, <3>3 DEF Telling
      <4>2. /\ \A u \in Tabs : u # talk[c].tab => sock[u] = "none"
            /\ talk[c].tab \in strayed'
        BY <2>1, <4>1
      <4>3. QED BY <4>2
    <3>4. QED BY <3>2, <3>3
  <2>3. CASE (present \/ kicked) /\ \A d \in Talks : ~Taking(d)
    BY <1>9, <2>3
  <2>4. CASE \A t \in Tabs : sock[t] = "up" /\ t \notin strayed => LeavingBy(t)
    BY <1>3, <2>4 DEF LeavingBy, Acts
  <2>5. QED BY <2>1, <2>2, <2>3, <2>4, Unpacked DEF PresenceInv
<1>11. RoomInv'
  <2>1. SUFFICES ASSUME over # "announced", ~crossed, NEW t \in Tabs, sock[t] = "up", t \notin strayed'
                 PROVE  \/ \E j \in Talks : Joining(j, t)'
                        \/ t \in inRoom /\ \A d \in Talks : ~Quits(d, t)'
    BY DEF RoomInv
  <2>2. \A d \in Talks : Quits(d, t)' => Quits(d, t) /\ d # c
    BY <1>2 DEF Quits, Acts
  <2>3. ASSUME NEW j \in Talks, Joining(j, t) PROVE Joining(j, t)'
    <3>1. j # c BY <2>1, <2>3 DEF Joining, Acts
    <3>2. Acts(j, "join", t)' /\ talk'[j].live BY <1>3, <2>3, <3>1 DEF Joining, Acts
    <3>3. QED BY <1>3, <2>2, <2>3, <3>1, <3>2 DEF Joining
  <2>4. QED BY <2>1, <2>2, <2>3, Unpacked DEF RoomInv
<1>12. ToldInv'
  <2>1. over' = "announced" /\ ~crossed' =>
          \A t \in Tabs : InMeeting(t)' /\ t \notin strayed' => sock'[t] = "up" /\ t \in told'
    BY Unpacked DEF ToldInv, InMeeting
  <2>2. over' = "announced" =>
          \A d \in Talks, t \in Tabs : Acts(d, "enter", t)' /\ talk'[d].pc # "find" => t \in strayed'
    BY <1>2, Unpacked DEF ToldInv, Acts
  <2>3. QED BY <2>1, <2>2 DEF ToldInv
<1>13. QED BY <1>4, <1>5, <1>6, <1>7, <1>8, <1>10, <1>11, <1>12 DEF AInv

(* findByCode of a join, before its row is written. *)
LEMMA FindKeeps ==
  ASSUME AInv, NEW c \in Talks, FindMeeting(c)
  PROVE  AInv'
<1>1. /\ talk[c].pc = "find" /\ talk[c].kind \in InKinds /\ talk[c].tab \in Tabs
      /\ UNCHANGED <<over, present, pages, store, sock, inRoom, told, upsets, crossed, shared, unsaid, kicked>>
  <2>1. talk[c].pc = "find" BY DEF FindMeeting
  <2>2. talk[c].kind \in InKinds /\ talk[c].tab \in Tabs
    BY <2>1, Unpacked DEF Paths, BusyTabs
  <2>3. UNCHANGED <<over, present, pages, store, sock, inRoom, told, upsets, crossed, shared, unsaid, kicked>>
    BY DEF FindMeeting, pageVars
  <2>4. QED BY <2>1, <2>2, <2>3
<1>2. /\ present \in BOOLEAN /\ unsaid \in BOOLEAN /\ crossed \in BOOLEAN
      /\ shared \in BOOLEAN /\ kicked \in BOOLEAN
      /\ upsets \in 0..MaxUpsets /\ strayed \in SUBSET Tabs
      /\ over \in {"no", "silent", "marked", "announced"}
  BY Unpacked DEF AttendanceTypeOK
<1>3. CASE over = "no"
  <2>1. TalkGoto(c, "row") /\ UNCHANGED strayed BY <1>3 DEF FindMeeting
  <2>2. /\ AttendanceTypeOK' /\ BusyTabs' /\ Paths' /\ SocketsIn' /\ DownStrayed' /\ JoinsIn'
        /\ RoomInv' /\ ToldInv'
    BY <1>1, <1>2, <1>3, <2>1, GotoKeeps, KindsAndPCs
  <2>3. /\ talk'[c].pc = "row" /\ talk'[c].kind = talk[c].kind
        /\ talk'[c].tab = talk[c].tab /\ talk'[c].live = talk[c].live
        /\ talk'[c].before = talk[c].before
        /\ \A d \in Talks : d # c => Stays(d, {})
    BY <2>1, GotoMoves, Unpacked, KindsAndPCs
  <2>4. \A t \in Tabs : (Gone(t)' => Gone(t)) /\ (Coming(t) => Coming(t)')
    BY <1>1, <2>3 DEF Gone, Coming, Acts, Stays
  <2>5. Accounted' BY <1>1, <2>4, Unpacked DEF Accounted, InMeeting
  <2>6. \A d \in Talks : Taking(d)' => Taking(d) BY <1>1, <2>3 DEF Taking, Stays
  <2>7. \A j \in Talks : Telling(j) => Telling(j)' BY <1>1, <2>3, <2>6 DEF Telling, Stays
  <2>8. \A t \in Tabs : LeavingBy(t) => LeavingBy(t)' BY <1>1, <2>3 DEF LeavingBy, Acts, Stays
  <2>9. PresenceInv' BY <1>1, <2>1, <2>6, <2>7, <2>8, Unpacked DEF PresenceInv
  <2>10. QED BY <2>2, <2>5, <2>9 DEF AInv
<1>4. CASE over # "no"
  <2>1. TalkDone(c) /\ strayed' = IF talk[c].kind = "join" /\ over # "announced"
                                    THEN strayed \cup {talk[c].tab} ELSE strayed
    BY <1>4 DEF FindMeeting
  <2>2. /\ strayed' \in SUBSET Tabs /\ strayed \subseteq strayed'
        /\ (talk[c].kind = "join" => over = "announced" \/ talk[c].tab \in strayed')
    BY <1>1, <1>2, <1>4, <2>1
  <2>3. talk[c].kind # "bye" /\ ~Taking(c) BY <1>1, KindsAndPCs DEF Taking
  <2>4. QED BY <1>1, <1>2, <1>4, <2>1, <2>2, <2>3, DoneKeeps
<1>5. QED BY <1>3, <1>4

LEMMA UpsertKeeps ==
  ASSUME AInv, NEW c \in Talks, UpsertParticipant(c)
  PROVE  AInv'
<1> DEFINE pc == IF talk[c].kind = "enter" THEN "token" ELSE "after"
<1>1. /\ talk[c].pc = "row" /\ talk[c].kind \in InKinds /\ TalkGoto(c, pc)
      /\ present' = TRUE /\ kicked' = FALSE
      /\ crossed' = (crossed \/ CrossesRow(c)) /\ unsaid' = (unsaid \/ Parted(c))
      /\ UNCHANGED <<over, pages, store, sock, inRoom, told, upsets, strayed, shared>>
  BY DEF UpsertParticipant, pageVars
<1>2. talk[c].kind \in {"enter", "join"} /\ talk[c].tab \in Tabs
  BY <1>1, Unpacked DEF InKinds, BusyTabs
<1>3. /\ pc \in TalkPCs \ {"idle", "find"} /\ (pc = "token" => talk[c].kind = "enter")
      /\ (talk[c].kind = "enter" => pc = "token") /\ pc \in {"token", "after"}
  BY KindsAndPCs
<1> HIDE DEF pc
<1>4. /\ unsaid' \in BOOLEAN /\ crossed' \in BOOLEAN /\ (crossed => crossed')
      /\ upsets' \in 0..MaxUpsets
  BY <1>1, Unpacked DEF AttendanceTypeOK, CrossesRow, Parted
<1>5. /\ AttendanceTypeOK' /\ BusyTabs' /\ Paths' /\ SocketsIn' /\ DownStrayed' /\ JoinsIn'
      /\ RoomInv' /\ ToldInv'
  BY <1>1, <1>3, <1>4, GotoKeeps
<1>6. /\ talk'[c].pc = pc /\ talk'[c].kind = talk[c].kind
      /\ talk'[c].tab = talk[c].tab /\ talk'[c].live = talk[c].live
      /\ talk'[c].before = talk[c].before
      /\ \A d \in Talks : d # c => Stays(d, {})
  BY <1>1, <1>3, GotoMoves, Unpacked
<1>7. Accounted'
  <2>1. SUFFICES ASSUME ~unsaid' PROVE \E t \in Tabs : ~Gone(t)' /\ (InMeeting(t)' \/ Coming(t)')
    BY DEF Accounted
  <2>2. ~Parted(c) BY <1>1, <2>1
  <2>3. PICK t \in Tabs : t = talk[c].tab BY <1>2
  <2>4. talk[c].live /\ ~Gone(t) BY <2>2, <2>3 DEF Parted, Gone, Acts, Busy
  <2>5. ~Gone(t)' BY <1>1, <1>2, <1>6, <2>4 DEF Gone, Acts, Stays
  <2>6. CASE talk[c].kind = "enter"
    <3>1. Acts(c, "enter", t)' /\ talk'[c].pc = "token"
      BY <1>3, <1>6, <2>3, <2>6 DEF Acts
    <3>2. Coming(t)' BY <3>1 DEF Coming
    <3>3. QED BY <2>5, <3>2
  <2>7. CASE talk[c].kind = "join"
    <3>1. InMeeting(t) BY <1>1, <2>3, <2>4, <2>7, Unpacked DEF JoinsIn, Acts
    <3>2. InMeeting(t)' BY <1>1, <3>1 DEF InMeeting
    <3>3. QED BY <2>5, <3>2
  <2>8. QED BY <1>2, <2>6, <2>7
<1>8. \A d \in Talks : Taking(d)' => Taking(d) BY <1>1, <1>6 DEF Taking, Stays
<1>9. PresenceInv'
  <2>1. SUFFICES ASSUME over = "no", ~shared, ~crossed' PROVE
          \/ \E j \in Talks : Telling(j)'
          \/ (present' \/ kicked') /\ \A d \in Talks : ~Taking(d)'
          \/ \A t \in Tabs : sock'[t] = "up" /\ t \notin strayed' => LeavingBy(t)'
    BY <1>1 DEF PresenceInv
  <2>2. ~crossed /\ ~CrossesRow(c) BY <1>1, <2>1
  <2>3. CASE Telling(c)
    <3>1. \A d \in Talks : ~Taking(d)
      BY <1>1, <2>2, <2>3 DEF Telling, Taking, CrossesRow, Opposite
    <3>2. QED BY <1>1, <1>8, <3>1
  <2>4. CASE \E j \in Talks : Telling(j) /\ j # c
    <3>1. PICK j \in Talks : Telling(j) /\ j # c BY <2>4
    <3>2. Telling(j)' BY <1>6, <1>8, <3>1 DEF Telling, Stays
    <3>3. QED BY <3>2
  <2>5. CASE \A d \in Talks : ~Taking(d)
    BY <1>1, <1>8, <2>5
  <2>6. CASE \A t \in Tabs : sock[t] = "up" /\ t \notin strayed => LeavingBy(t)
    <3>1. \A t \in Tabs : LeavingBy(t) => LeavingBy(t)'
      BY <1>1, <1>3, <1>6, KindsAndPCs DEF LeavingBy, Acts, Stays
    <3>2. QED BY <1>1, <2>6, <3>1
  <2>7. QED BY <2>1, <2>2, <2>3, <2>4, <2>5, <2>6, Unpacked DEF PresenceInv
<1>10. QED BY <1>5, <1>7, <1>9 DEF AInv

LEMMA MintKeeps ==
  ASSUME AInv, NEW c \in Talks, MintToken(c)
  PROVE  AInv'
<1>1. /\ talk[c].pc = "token"
      /\ UNCHANGED <<over, present, pages, store, sock, inRoom, told, upsets, strayed, crossed, shared, kicked>>
  BY DEF MintToken, pageVars
<1>2. talk[c].kind = "enter" BY <1>1, Unpacked DEF Paths
<1>3. /\ present \in BOOLEAN /\ unsaid \in BOOLEAN /\ crossed \in BOOLEAN
      /\ shared \in BOOLEAN /\ kicked \in BOOLEAN
      /\ upsets \in 0..MaxUpsets /\ strayed \in SUBSET Tabs
  BY Unpacked DEF AttendanceTypeOK
<1>4. CASE TalkGoto(c, "after") /\ UNCHANGED unsaid
  <2>1. /\ AttendanceTypeOK' /\ BusyTabs' /\ Paths' /\ SocketsIn' /\ DownStrayed' /\ JoinsIn'
        /\ RoomInv' /\ ToldInv'
    BY <1>1, <1>2, <1>3, <1>4, GotoKeeps, KindsAndPCs
  <2>2. /\ talk'[c].pc = "after" /\ talk'[c].kind = talk[c].kind
        /\ talk'[c].tab = talk[c].tab /\ talk'[c].live = talk[c].live
        /\ talk'[c].before = talk[c].before
        /\ \A d \in Talks : d # c => Stays(d, {})
    BY <1>4, GotoMoves, Unpacked, KindsAndPCs
  <2>3. \A t \in Tabs : (Gone(t)' => Gone(t)) /\ (Coming(t) => Coming(t)')
    BY <1>1, <1>2, <2>2 DEF Gone, Coming, Acts, Stays
  <2>4. Accounted' BY <1>1, <1>4, <2>3, Unpacked DEF Accounted, InMeeting
  <2>5. \A d \in Talks : Taking(d)' => Taking(d) BY <1>1, <2>2 DEF Taking, Stays
  <2>6. \A j \in Talks : Telling(j) => Telling(j)' BY <1>1, <2>2, <2>5 DEF Telling, Stays
  <2>7. \A t \in Tabs : LeavingBy(t) => LeavingBy(t)' BY <1>1, <2>2 DEF LeavingBy, Acts, Stays
  <2>8. PresenceInv' BY <1>1, <2>5, <2>6, <2>7, Unpacked DEF PresenceInv
  <2>9. QED BY <2>1, <2>4, <2>8 DEF AInv
<1>5. CASE TalkDone(c) /\ unsaid' = TRUE
  <2>1. ~Taking(c) BY <1>1 DEF Taking
  <2>2. QED BY <1>1, <1>2, <1>3, <1>5, <2>1, DoneKeeps
<1>6. QED BY <1>4, <1>5 DEF MintToken

LEMMA LeaveFailsKeeps ==
  ASSUME AInv, NEW c \in Talks, QueryFails(c), talk[c].kind = "bye"
  PROVE  AInv'
<1>1. /\ talk[c].pc \in {"find", "row"} /\ TalkGoto(c, "after") /\ unsaid' = TRUE
      /\ upsets < MaxUpsets /\ upsets' = upsets + 1
      /\ UNCHANGED <<over, present, pages, store, sock, inRoom, told, strayed, crossed, shared, kicked>>
  BY DEF QueryFails, Upset, pageVars
<1>2. talk[c].pc = "row" BY <1>1, KindsAndPCs, Unpacked DEF Paths
<1>3. /\ upsets' \in 0..MaxUpsets /\ present \in BOOLEAN /\ crossed \in BOOLEAN /\ kicked \in BOOLEAN
  BY <1>1, AttendanceAssumption, Unpacked DEF AttendanceTypeOK
<1>4. /\ AttendanceTypeOK' /\ BusyTabs' /\ Paths' /\ SocketsIn' /\ DownStrayed' /\ JoinsIn'
      /\ RoomInv' /\ ToldInv'
  BY <1>1, <1>2, <1>3, GotoKeeps, KindsAndPCs
<1>5. /\ talk'[c].pc = "after" /\ talk'[c].kind = talk[c].kind
      /\ talk'[c].tab = talk[c].tab /\ talk'[c].live = talk[c].live
      /\ talk'[c].before = talk[c].before
      /\ \A d \in Talks : d # c => Stays(d, {})
  BY <1>1, GotoMoves, Unpacked, KindsAndPCs
<1>6. Accounted' BY <1>1 DEF Accounted
<1>7. \A d \in Talks : Taking(d)' => Taking(d) BY <1>5 DEF Taking, Stays
<1>8. \A j \in Talks : Telling(j) => Telling(j)' BY <1>1, <1>5, <1>7 DEF Telling, Stays
<1>9. \A t \in Tabs : LeavingBy(t) => LeavingBy(t)' BY <1>1, <1>5 DEF LeavingBy, Acts, Stays
<1>10. PresenceInv' BY <1>1, <1>7, <1>8, <1>9, Unpacked DEF PresenceInv
<1>11. QED BY <1>4, <1>6, <1>10 DEF AInv

LEMMA QueryFailsKeeps ==
  ASSUME AInv, NEW c \in Talks, QueryFails(c)
  PROVE  AInv'
<1>1. CASE talk[c].kind = "bye" BY <1>1, LeaveFailsKeeps
<1>2. CASE talk[c].kind # "bye"
  <2>1. /\ talk[c].pc \in {"find", "row"} /\ TalkDone(c)
        /\ upsets < MaxUpsets /\ upsets' = upsets + 1
        /\ UNCHANGED <<over, present, pages, store, sock, inRoom, told, crossed, unsaid, kicked>>
        /\ IF talk[c].kind = "join"
             THEN /\ strayed' = strayed \cup {talk[c].tab}
                  /\ shared' = (shared \/ OtherIn(talk[c].tab))
             ELSE UNCHANGED <<strayed, shared>>
    BY <1>2 DEF QueryFails, Upset, pageVars
  <2>2. talk[c].tab \in Tabs BY <2>1, Unpacked DEF BusyTabs
  <2>3. /\ present \in BOOLEAN /\ unsaid \in BOOLEAN /\ crossed \in BOOLEAN /\ shared \in BOOLEAN
        /\ kicked \in BOOLEAN /\ strayed \in SUBSET Tabs
    BY Unpacked DEF AttendanceTypeOK
  <2>4. upsets' \in 0..MaxUpsets BY <2>1, AttendanceAssumption, Unpacked DEF AttendanceTypeOK
  <2>5. /\ shared' \in BOOLEAN /\ (shared => shared')
        /\ strayed' \in SUBSET Tabs /\ strayed \subseteq strayed'
    BY <2>1, <2>2, <2>3 DEF OtherIn
  <2>6. talk[c].kind = "join" =>
          /\ talk[c].tab \in strayed'
          /\ shared' \/ \A u \in Tabs \ {talk[c].tab} : sock[u] = "none"
    BY <2>1, <2>2, AloneThere
  <2>7. QED BY <1>2, <2>1, <2>3, <2>4, <2>5, <2>6, DoneKeeps
<1>3. QED BY <1>1, <1>2

LEMMA MarkLeftKeeps ==
  ASSUME AInv, NEW c \in Talks, MarkParticipantLeft(c)
  PROVE  AInv'
<1>1. /\ talk[c].pc = "row" /\ talk[c].kind \notin InKinds /\ present' = FALSE
      /\ crossed' = (crossed \/ CrossesRow(c)) /\ unsaid' = (unsaid /\ talk[c].kind # "bye")
      /\ IF talk[c].kind = "gone" THEN TalkDone(c) ELSE TalkGoto(c, "after")
      /\ UNCHANGED <<over, pages, store, sock, inRoom, told, upsets, strayed, shared, kicked>>
  BY DEF MarkParticipantLeft, pageVars
<1>2. /\ unsaid' \in BOOLEAN /\ crossed' \in BOOLEAN /\ (crossed => crossed')
      /\ upsets' \in 0..MaxUpsets /\ shared \in BOOLEAN /\ kicked \in BOOLEAN
  BY <1>1, Unpacked DEF AttendanceTypeOK, CrossesRow
<1>3. talk[c].kind # "join" /\ talk[c].kind # "enter" /\ Taking(c)
  BY <1>1, KindsAndPCs DEF Taking
<1>4. Accounted' BY <1>1 DEF Accounted
<1>5. CASE talk[c].kind # "gone"
  <2>1. TalkGoto(c, "after") BY <1>1, <1>5
  <2>2. /\ AttendanceTypeOK' /\ BusyTabs' /\ Paths' /\ SocketsIn' /\ DownStrayed' /\ JoinsIn'
        /\ RoomInv' /\ ToldInv'
    BY <1>1, <1>2, <2>1, GotoKeeps, KindsAndPCs
  <2>3. /\ talk'[c].pc = "after" /\ talk'[c].kind = talk[c].kind
        /\ talk'[c].tab = talk[c].tab /\ talk'[c].live = talk[c].live
        /\ talk'[c].before = talk[c].before
        /\ \A d \in Talks : d # c => Stays(d, {})
    BY <2>1, GotoMoves, Unpacked, KindsAndPCs
  <2>4. \A d \in Talks : Taking(d)' => Taking(d) BY <1>1, <2>3 DEF Taking, Stays
  <2>5. \A j \in Talks : Telling(j) => Telling(j)' BY <1>3, <2>3, <2>4 DEF Telling, Stays
  <2>6. \A t \in Tabs : LeavingBy(t) => LeavingBy(t)' BY <1>1, <2>3 DEF LeavingBy, Acts, Stays
  <2>7. PresenceInv' BY <1>1, <1>2, <1>3, <2>5, <2>6, Unpacked DEF PresenceInv
  <2>8. QED BY <1>4, <2>2, <2>7 DEF AInv
<1>6. CASE talk[c].kind = "gone"
  <2>1. TalkDone(c) /\ ~(talk[c].kind = "bye" /\ talk[c].live) BY <1>1, <1>6
  <2>2. strayed \in SUBSET Tabs BY Unpacked DEF AttendanceTypeOK
  <2>3. QED BY <1>1, <1>2, <1>3, <2>1, <2>2, DoneKeeps
<1>7. QED BY <1>5, <1>6

(* onJoin and onLeave reach the room. *)
LEMMA RoomKeeps ==
  ASSUME AInv, NEW c \in Talks, JoinRoom(c) \/ LeaveRoom(c)
  PROVE  AInv'
<1>1. /\ talk[c].pc = "after" /\ talk[c].kind \in {"join", "leave"} /\ TalkDone(c)
      /\ crossed' = (crossed \/ CrossesRoom(c))
      /\ UNCHANGED <<over, present, pages, store, sock, told, upsets, strayed, shared, unsaid, kicked>>
  BY DEF JoinRoom, LeaveRoom, pageVars
<1>2. TalkTyped' /\ talk'[c].pc = "idle" /\ \A d \in Talks : d # c => Stays(d, {c})
  BY <1>1, DoneMoves, Unpacked
<1>3. \A d \in Talks : talk'[d].pc # "idle" =>
        /\ d # c /\ talk'[d].pc = talk[d].pc
        /\ talk'[d].kind = talk[d].kind /\ talk'[d].tab = talk[d].tab
        /\ talk'[d].live <=> talk[d].live
        /\ talk'[d].before = talk[d].before \ {c}
  BY <1>2 DEF Stays
<1>4. \A d \in Talks : d # c =>
        /\ talk'[d].pc = talk[d].pc
        /\ talk'[d].kind = talk[d].kind /\ talk'[d].tab = talk[d].tab
        /\ talk'[d].live <=> talk[d].live
        /\ talk'[d].before = talk[d].before \ {c}
  BY <1>2 DEF Stays
<1>5. talk[c].tab \in Tabs BY <1>1, Unpacked DEF BusyTabs
<1>6. AttendanceTypeOK'
  <2>1. crossed' \in BOOLEAN BY <1>1, Unpacked DEF AttendanceTypeOK, CrossesRoom
  <2>2. inRoom' \subseteq Tabs
    BY <1>5, Unpacked DEF JoinRoom, LeaveRoom, AttendanceTypeOK
  <2>3. QED BY <1>1, <1>2, <2>1, <2>2, Unpacked DEF AttendanceTypeOK, TalkTyped
<1>7. BusyTabs' /\ Paths' BY <1>2, <1>3, Unpacked DEF BusyTabs, Paths
<1>8. SocketsIn' /\ DownStrayed' BY <1>1, Unpacked DEF SocketsIn, DownStrayed, InMeeting
<1>9. JoinsIn' BY <1>1, <1>3, Unpacked DEF JoinsIn, Acts, InMeeting
<1>10. \A t \in Tabs : (Gone(t)' => Gone(t)) /\ (Coming(t) => Coming(t)')
  BY <1>1, <1>3, <1>4 DEF Gone, Coming, Acts
<1>11. Accounted' BY <1>1, <1>10, Unpacked DEF Accounted, InMeeting
<1>12. \A d \in Talks : Taking(d)' => Taking(d) /\ d # c BY <1>3 DEF Taking
<1>13. \A j \in Talks : Telling(j) => Telling(j)' BY <1>1, <1>4, <1>12 DEF Telling
<1>14. \A t \in Tabs : LeavingBy(t) => LeavingBy(t)' BY <1>1, <1>4 DEF LeavingBy, Acts
<1>15. PresenceInv' BY <1>1, <1>12, <1>13, <1>14, Unpacked DEF PresenceInv
<1>16. RoomInv'
  <2>1. SUFFICES ASSUME over # "announced", ~crossed, ~CrossesRoom(c),
                        NEW t \in Tabs, sock[t] = "up", t \notin strayed
                 PROVE  \/ \E j \in Talks : Joining(j, t)'
                        \/ t \in inRoom' /\ \A d \in Talks : ~Quits(d, t)'
    BY <1>1 DEF RoomInv
  <2>2. \A d \in Talks : Quits(d, t)' => Quits(d, t) /\ d # c
    BY <1>3 DEF Quits, Acts
  <2>3. ASSUME NEW j \in Talks, Joining(j, t), j # c PROVE Joining(j, t)'
    <3>1. Acts(j, "join", t)' /\ talk'[j].live BY <1>4, <2>3 DEF Joining, Acts
    <3>2. QED BY <1>4, <2>2, <2>3, <3>1 DEF Joining
  <2>4. CASE Joining(c, t)
    <3>1. \A d \in Talks : ~Quits(d, t)
      BY <2>1, <2>4, KindsAndPCs DEF Joining, Quits, Acts, CrossesRoom, Opposite
    <3>2. JoinRoom(c) /\ talk[c].live /\ talk[c].tab = t
      BY <2>4 DEF Joining, Acts, LeaveRoom
    <3>3. t \in inRoom' BY <3>2 DEF JoinRoom
    <3>4. QED BY <2>2, <3>1, <3>3
  <2>5. CASE t \in inRoom /\ \A d \in Talks : ~Quits(d, t)
    <3>1. ~Quits(c, t) BY <2>5
    <3>2. t \in inRoom' BY <1>1, <2>5, <3>1 DEF JoinRoom, LeaveRoom, Quits, Acts
    <3>3. QED BY <2>2, <2>5, <3>2
  <2>6. QED BY <2>1, <2>3, <2>4, <2>5, Unpacked DEF RoomInv
<1>17. ToldInv'
  <2>1. over' = "announced" /\ ~crossed' =>
          \A t \in Tabs : InMeeting(t)' /\ t \notin strayed' => sock'[t] = "up" /\ t \in told'
    BY <1>1, Unpacked DEF ToldInv, InMeeting
  <2>2. over' = "announced" =>
          \A d \in Talks, t \in Tabs : Acts(d, "enter", t)' /\ talk'[d].pc # "find" => t \in strayed'
    BY <1>1, <1>3, Unpacked DEF ToldInv, Acts
  <2>3. QED BY <2>1, <2>2 DEF ToldInv
<1>18. QED BY <1>6, <1>7, <1>8, <1>9, <1>11, <1>15, <1>16, <1>17 DEF AInv

LEMMA StartKeeps ==
  ASSUME AInv, NEW c \in Talks, StartSession(c)
  PROVE  AInv'
<1>1. /\ talk[c].pc = "after" /\ talk[c].kind = "enter" /\ TalkDone(c)
      /\ UNCHANGED <<over, present, pages, inRoom, told, upsets, strayed, crossed, shared, kicked>>
  BY DEF StartSession
<1>2. TalkTyped' /\ talk'[c].pc = "idle" /\ \A d \in Talks : d # c => Stays(d, {c})
  BY <1>1, DoneMoves, Unpacked
<1>3. \A d \in Talks : talk'[d].pc # "idle" =>
        /\ d # c /\ talk'[d].pc = talk[d].pc
        /\ talk'[d].kind = talk[d].kind /\ talk'[d].tab = talk[d].tab
        /\ talk'[d].live <=> talk[d].live
        /\ talk'[d].before = talk[d].before \ {c}
  BY <1>2 DEF Stays
<1>4. \A d \in Talks : d # c =>
        /\ talk'[d].pc = talk[d].pc
        /\ talk'[d].kind = talk[d].kind /\ talk'[d].tab = talk[d].tab
        /\ talk'[d].live <=> talk[d].live
        /\ talk'[d].before = talk[d].before \ {c}
  BY <1>2 DEF Stays
<1>5. PICK t \in Tabs : t = talk[c].tab BY <1>1, Unpacked DEF BusyTabs
<1>6. CASE ~talk[c].live
  <2>1. unsaid' = TRUE /\ UNCHANGED <<store, sock>> BY <1>6 DEF StartSession
  <2>2. ~Taking(c) BY <1>1 DEF Taking
  <2>3. /\ strayed \in SUBSET Tabs /\ crossed \in BOOLEAN /\ present \in BOOLEAN
        /\ shared \in BOOLEAN /\ kicked \in BOOLEAN /\ upsets \in 0..MaxUpsets
    BY Unpacked DEF AttendanceTypeOK
  <2>4. QED BY <1>1, <2>1, <2>2, <2>3, DoneKeeps
<1>7. CASE talk[c].live
  <2>1. /\ store' = [store EXCEPT ![t] = "full"]
        /\ sock' = [sock EXCEPT ![t] = IF InMeeting(t) THEN @ ELSE "new"]
        /\ UNCHANGED unsaid
    BY <1>5, <1>7 DEF StartSession
  <2>2. /\ store' \in [Tabs -> {"none", "full", "mini", "ended"}]
        /\ sock' \in [Tabs -> {"none", "new", "up", "down"}]
    BY <2>1, Unpacked DEF AttendanceTypeOK
  <2>3. /\ store'[t] = "full" /\ sock'[t] = (IF InMeeting(t) THEN sock[t] ELSE "new")
        /\ \A u \in Tabs : u # t => store'[u] = store[u] /\ sock'[u] = sock[u]
    BY <2>1, Unpacked DEF AttendanceTypeOK
  <2>4. /\ InMeeting(t)'
        /\ \A u \in Tabs : (InMeeting(u) => InMeeting(u)') /\ (u # t => (InMeeting(u)' <=> InMeeting(u)))
    BY <2>3 DEF InMeeting
  <2>5. \A u \in Tabs : (sock'[u] = "up" => sock[u] = "up") /\ (sock'[u] = "down" => sock[u] = "down")
    BY <2>3
  <2>6. AttendanceTypeOK' BY <1>1, <1>2, <2>1, <2>2, Unpacked DEF AttendanceTypeOK, TalkTyped
  <2>7. BusyTabs' /\ Paths' BY <1>2, <1>3, Unpacked DEF BusyTabs, Paths
  <2>8. SocketsIn' BY <2>3, <2>4, Unpacked DEF SocketsIn
  <2>9. DownStrayed' BY <1>1, <2>5, Unpacked DEF DownStrayed
  <2>10. JoinsIn' BY <1>3, <2>4, Unpacked DEF JoinsIn, Acts
  <2>11. Accounted'
    <3>1. \A u \in Tabs : Gone(u)' => Gone(u) BY <1>3 DEF Gone, Acts
    <3>2. ASSUME NEW u \in Tabs, Coming(u), u # t PROVE Coming(u)'
      <4>1. PICK d \in Talks : Acts(d, "enter", u) /\ talk[d].pc \in {"token", "after"}
        BY <3>2 DEF Coming
      <4>2. d # c BY <1>5, <3>2, <4>1 DEF Acts
      <4>3. Acts(d, "enter", u)' /\ talk'[d].pc \in {"token", "after"} BY <1>4, <4>1, <4>2 DEF Acts
      <4>4. QED BY <4>3 DEF Coming
    <3>3. QED BY <1>1, <2>1, <2>4, <3>1, <3>2, Unpacked DEF Accounted
  <2>12. \A d \in Talks : Taking(d)' => Taking(d) /\ d # c BY <1>3 DEF Taking
  <2>13. \A j \in Talks : Telling(j) => Telling(j)' BY <1>1, <1>4, <2>12 DEF Telling
  <2>14. \A u \in Tabs : LeavingBy(u) => LeavingBy(u)' BY <1>1, <1>4 DEF LeavingBy, Acts
  <2>15. PresenceInv' BY <1>1, <2>5, <2>12, <2>13, <2>14, Unpacked DEF PresenceInv
  <2>16. \A d \in Talks, u \in Tabs : Quits(d, u)' => Quits(d, u) /\ d # c
    BY <1>3 DEF Quits, Acts
  <2>17. ASSUME NEW j \in Talks, NEW u \in Tabs, Joining(j, u) PROVE Joining(j, u)'
    <3>1. j # c BY <1>1, <2>17 DEF Joining, Acts
    <3>2. Acts(j, "join", u)' /\ talk'[j].live BY <1>4, <2>17, <3>1 DEF Joining, Acts
    <3>3. QED BY <1>4, <2>16, <2>17, <3>1, <3>2 DEF Joining
  <2>18. RoomInv' BY <1>1, <2>5, <2>16, <2>17, Unpacked DEF RoomInv
  <2>19. ToldInv'
    <3>1. over = "announced" => t \in strayed BY <1>1, <1>5, Unpacked DEF ToldInv, Acts
    <3>2. over' = "announced" /\ ~crossed' =>
            \A u \in Tabs : InMeeting(u)' /\ u \notin strayed' => sock'[u] = "up" /\ u \in told'
      BY <1>1, <2>3, <2>4, <3>1, Unpacked DEF ToldInv
    <3>3. over' = "announced" =>
            \A d \in Talks, u \in Tabs : Acts(d, "enter", u)' /\ talk'[d].pc # "find" => u \in strayed'
      BY <1>1, <1>3, Unpacked DEF ToldInv, Acts
    <3>4. QED BY <3>2, <3>3 DEF ToldInv
  <2>20. QED BY <2>6, <2>7, <2>8, <2>9, <2>10, <2>11, <2>15, <2>18, <2>19 DEF AInv
<1>8. QED BY <1>6, <1>7

-----------------------------------------------------------------------------
(* The steps of a tab, and of the meeting. *)

(* The user goes from page to page; the meeting's row is written. *)
LEMMA QuietKeeps ==
  ASSUME AInv, UNCHANGED <<present, sock, inRoom, told, talk, upsets, strayed, crossed, shared, unsaid, kicked>>,
         pages' \in SUBSET Tabs, store' \in [Tabs -> {"none", "full", "mini", "ended"}],
         over' \in {"no", "silent", "marked", "announced"}, 
         over' = over \/ (over # "announced" /\ over' \in {"marked", "silent"}),
         \A t \in Tabs : InMeeting(t)' <=> InMeeting(t)
  PROVE  AInv'
<1>1. AttendanceTypeOK' BY Unpacked DEF AttendanceTypeOK
<1>2. BusyTabs' /\ Paths' BY Unpacked DEF BusyTabs, Paths
<1>3. SocketsIn' /\ DownStrayed' BY Unpacked DEF SocketsIn, DownStrayed
<1>4. JoinsIn' BY Unpacked DEF JoinsIn, Acts
<1>5. \A t \in Tabs : (Gone(t)' <=> Gone(t)) /\ (Coming(t)' <=> Coming(t)) /\ (LeavingBy(t)' <=> LeavingBy(t))
  BY DEF Gone, Coming, LeavingBy, Acts
<1>6. Accounted' BY <1>5, Unpacked DEF Accounted
<1>7. \A c \in Talks : (Taking(c)' <=> Taking(c)) /\ (Telling(c)' <=> Telling(c))
  BY DEF Taking, Telling
<1>8. PresenceInv' BY <1>5, <1>7, Unpacked DEF PresenceInv
<1>9. \A c \in Talks, t \in Tabs : (Quits(c, t)' <=> Quits(c, t)) /\ (Joining(c, t)' <=> Joining(c, t))
  BY DEF Quits, Joining, Acts
<1>10. RoomInv' BY <1>9, Unpacked DEF RoomInv
<1>11. ToldInv' BY Unpacked DEF ToldInv, Acts
<1>12. QED BY <1>1, <1>2, <1>3, <1>4, <1>6, <1>8, <1>10, <1>11 DEF AInv

LEMMA PageKeeps ==
  ASSUME AInv, NEW t \in Tabs, OpenPage(t) \/ ClosePage(t)
  PROVE  AInv'
<1>1. /\ UNCHANGED <<over, present, sock, inRoom, told, talk, upsets, strayed, crossed, shared, unsaid, kicked>>
      /\ pages' \in SUBSET Tabs /\ over \in {"no", "silent", "marked", "announced"}
  BY Unpacked DEF OpenPage, ClosePage, causes, AttendanceTypeOK
<1>2. /\ store' \in [Tabs -> {"none", "full", "mini", "ended"}]
      /\ \A u \in Tabs : u # t => store'[u] = store[u]
      /\ \/ store'[t] = store[t]
         \/ store[t] = "mini" /\ store'[t] = "full"
         \/ store[t] = "full" /\ store'[t] = "mini"
         \/ store[t] = "ended" /\ store'[t] = "none"
  <2> DEFINE v == IF OpenPage(t) THEN IF store[t] = "mini" THEN "full" ELSE store[t]
                  ELSE CASE store[t] = "full" -> "mini" [] store[t] = "ended" -> "none" [] OTHER -> store[t]
  <2>1. store \in [Tabs -> {"none", "full", "mini", "ended"}] BY Unpacked DEF AttendanceTypeOK
  <2>2. store' = [store EXCEPT ![t] = v]
    <3>1. CASE OpenPage(t) BY <3>1 DEF OpenPage
    <3>2. CASE ~OpenPage(t) BY <3>2 DEF ClosePage
    <3>3. QED BY <3>1, <3>2
  <2>3. /\ v \in {"none", "full", "mini", "ended"}
        /\ \/ v = store[t]
           \/ store[t] = "mini" /\ v = "full"
           \/ store[t] = "full" /\ v = "mini"
           \/ store[t] = "ended" /\ v = "none"
    BY <2>1
  <2> HIDE DEF v
  <2>4. QED BY <2>1, <2>2, <2>3
<1>3. \A u \in Tabs : InMeeting(u)' <=> InMeeting(u) BY <1>2 DEF InMeeting
<1>4. QED BY <1>1, <1>2, <1>3, QuietKeeps DEF InMeeting

LEMMA MarkEndedKeeps ==
  ASSUME AInv, MarkEnded
  PROVE  AInv'
BY QuietKeeps, Unpacked DEF MarkEnded, causes, pageVars, AttendanceTypeOK, InMeeting

LEMMA ForceEndKeeps ==
  ASSUME AInv, ForceEnd
  PROVE  AInv'
BY QuietKeeps, Unpacked DEF ForceEnd, causes, pageVars, AttendanceTypeOK, InMeeting

(* The console marks the user as left: the flag stands for the row. *)
LEMMA KickKeeps ==
  ASSUME AInv, KickParticipant
  PROVE  AInv'
<1>1. /\ present' = FALSE /\ kicked' = TRUE /\ upsets < MaxUpsets /\ upsets' = upsets + 1
      /\ UNCHANGED <<over, pages, store, sock, inRoom, told, talk, strayed, crossed, shared, unsaid>>
  BY DEF KickParticipant, Upset, pageVars
<1>2. upsets' \in 0..MaxUpsets BY <1>1, AttendanceAssumption, Unpacked DEF AttendanceTypeOK
<1>3. AttendanceTypeOK' BY <1>1, <1>2, Unpacked DEF AttendanceTypeOK
<1>4. BusyTabs' /\ Paths' BY <1>1, Unpacked DEF BusyTabs, Paths
<1>5. SocketsIn' /\ DownStrayed' BY <1>1, Unpacked DEF SocketsIn, DownStrayed, InMeeting
<1>6. JoinsIn' BY <1>1, Unpacked DEF JoinsIn, Acts, InMeeting
<1>7. Accounted' BY <1>1 DEF Accounted
<1>8. \A c \in Talks : (Taking(c)' <=> Taking(c)) /\ (Telling(c)' <=> Telling(c))
  BY <1>1 DEF Taking, Telling
<1>9. \A t \in Tabs : LeavingBy(t)' <=> LeavingBy(t) BY <1>1 DEF LeavingBy, Acts
<1>10. PresenceInv' BY <1>1, <1>8, <1>9, Unpacked DEF PresenceInv
<1>11. \A c \in Talks, t \in Tabs : (Quits(c, t)' <=> Quits(c, t)) /\ (Joining(c, t)' <=> Joining(c, t))
  BY <1>1 DEF Quits, Joining, Acts
<1>12. RoomInv' BY <1>1, <1>11, Unpacked DEF RoomInv
<1>13. ToldInv' BY <1>1, Unpacked DEF ToldInv, Acts, InMeeting
<1>14. QED BY <1>3, <1>4, <1>5, <1>6, <1>7, <1>10, <1>12, <1>13 DEF AInv

LEMMA EmitEndedKeeps ==
  ASSUME AInv, EmitEnded
  PROVE  AInv'
<1>1. /\ over = "marked" /\ over' = "announced" /\ told' = inRoom
      /\ strayed' = strayed \cup {t \in Tabs : \/ sock[t] = "new"
                                    \/ \E c \in Busy : talk[c].tab = t /\ talk[c].kind \in InKinds}
      /\ UNCHANGED <<present, pages, store, sock, inRoom, talk, upsets, crossed, shared, unsaid, kicked>>
  BY DEF EmitEnded, pageVars
<1>2. AttendanceTypeOK' BY <1>1, Unpacked DEF AttendanceTypeOK
<1>3. BusyTabs' /\ Paths' BY <1>1, Unpacked DEF BusyTabs, Paths
<1>4. SocketsIn' /\ DownStrayed' BY <1>1, Unpacked DEF SocketsIn, DownStrayed, InMeeting
<1>5. JoinsIn' BY <1>1, Unpacked DEF JoinsIn, Acts, InMeeting
<1>6. Accounted' BY <1>1, Unpacked DEF Accounted, Gone, Coming, Acts, InMeeting
<1>7. PresenceInv' /\ RoomInv' BY <1>1 DEF PresenceInv, RoomInv
<1>8. ASSUME ~crossed, NEW t \in Tabs, InMeeting(t), t \notin strayed'
      PROVE  sock[t] = "up" /\ t \in inRoom
  <2>1. t \notin strayed /\ sock[t] # "new" BY <1>1, <1>8
  <2>2. sock[t] = "up" BY <1>8, <2>1, Unpacked DEF SocketsIn, DownStrayed, AttendanceTypeOK
  <2>3. \A j \in Talks : ~Joining(j, t)
    BY <1>1, <1>8, KindsAndPCs DEF Joining, Acts, Busy
  <2>4. QED BY <1>1, <1>8, <2>1, <2>2, <2>3, Unpacked DEF RoomInv
<1>9. \A c \in Talks, t \in Tabs : Acts(c, "enter", t) => t \in strayed'
  BY <1>1, KindsAndPCs DEF Acts, Busy
<1>10. ToldInv' BY <1>1, <1>8, <1>9 DEF ToldInv, Acts, InMeeting
<1>11. QED BY <1>2, <1>3, <1>4, <1>5, <1>6, <1>7, <1>10 DEF AInv

(* A handler begins, of a kind that leaves no room. *)
LEMMA NewKeeps ==
  ASSUME AInv, NEW c \in Free, NEW t \in Tabs, NEW k \in {"enter", "join", "bye"},
         NEW pc \in {"find", "row"}, (pc = "find") <=> (k \in InKinds),
         k = "join" => InMeeting(t),
         talk' = [talk EXCEPT ![c] = NewTalk(k, t, pc)], UNCHANGED <<over, store, strayed>>
  PROVE  /\ TalkTyped' /\ BusyTabs' /\ Paths' /\ JoinsIn'
         /\ c \in Talks /\ talk'[c].pc = pc /\ talk'[c].kind = k /\ talk'[c].tab = t
         /\ talk'[c].live /\ talk'[c].before = Busy
         /\ \A u \in Tabs : /\ Gone(u)' => Gone(u)
                            /\ Coming(u) => Coming(u)'
                            /\ LeavingBy(u) => LeavingBy(u)'
         /\ \A d \in Talks : Taking(d)' => Taking(d) \/ (d = c /\ k = "bye")
         /\ k \in InKinds => \A j \in Talks : Telling(j) => Telling(j)'
         /\ \A d \in Talks, u \in Tabs : (Quits(d, u)' => Quits(d, u)) /\ (Joining(d, u) => Joining(d, u)')
         /\ over = "announced" => \A d \in Talks, u \in Tabs :
                Acts(d, "enter", u)' /\ talk'[d].pc # "find" => u \in strayed'
<1>1. k \in Kinds /\ pc \in TalkPCs BY DEF Kinds, TalkPCs
<1>2. /\ TalkTyped' /\ c \in Talks /\ talk[c].pc = "idle"
      /\ talk'[c].pc = pc /\ talk'[c].kind = k /\ talk'[c].tab = t
      /\ talk'[c].live /\ talk'[c].before = Busy
      /\ \A d \in Talks : d # c => Stays(d, {})
  BY <1>1, NewMoves, Unpacked
<1>3. \A d \in Talks : d # c =>
        /\ talk'[d].pc = talk[d].pc
        /\ talk'[d].kind = talk[d].kind /\ talk'[d].tab = talk[d].tab
        /\ talk'[d].live <=> talk[d].live
        /\ talk'[d].before = talk[d].before
  BY <1>2 DEF Stays
<1>4. BusyTabs' /\ Paths' BY <1>2, <1>3, Unpacked DEF BusyTabs, Paths
<1>5. JoinsIn' BY <1>2, <1>3, Unpacked DEF JoinsIn, Acts, InMeeting
<1>6. \A d \in Talks, u \in Tabs, q \in Kinds :
        /\ Acts(d, q, u) => d # c /\ Acts(d, q, u)'
        /\ Acts(d, q, u)' => Acts(d, q, u) \/ (d = c /\ q = k /\ talk'[d].pc = pc)
  BY <1>2, <1>3 DEF Acts
<1>7. \A u \in Tabs : /\ Gone(u)' => Gone(u)
                      /\ Coming(u) => Coming(u)'
                      /\ LeavingBy(u) => LeavingBy(u)'
  BY <1>3, <1>6, KindsAndPCs DEF Gone, Coming, LeavingBy
<1>8. \A d \in Talks : Taking(d)' => Taking(d) \/ (d = c /\ k = "bye")
  BY <1>2, <1>3 DEF Taking, InKinds
<1>9. k \in InKinds => \A j \in Talks : Telling(j) => Telling(j)'
  BY <1>2, <1>3, <1>8, KindsAndPCs DEF Telling
<1>10. \A d \in Talks, u \in Tabs : Quits(d, u)' => Quits(d, u)
  BY <1>3, <1>6, KindsAndPCs DEF Quits
<1>11. \A d \in Talks, u \in Tabs : Joining(d, u) => Joining(d, u)'
  BY <1>3, <1>6, <1>10, KindsAndPCs DEF Joining
<1>12. over = "announced" => \A d \in Talks, u \in Tabs :
          Acts(d, "enter", u)' /\ talk'[d].pc # "find" => u \in strayed'
  BY <1>2, <1>3, <1>6, KindsAndPCs, Unpacked DEF ToldInv
<1>13. QED BY <1>2, <1>4, <1>5, <1>7, <1>8, <1>9, <1>10, <1>11, <1>12

LEMMA EnterKeeps ==
  ASSUME AInv, NEW t \in Tabs, Enter(t)
  PROVE  AInv'
<1>1. /\ store[t] = "none" /\ pages' = pages \cup {t}
      /\ UNCHANGED <<over, present, store, sock, inRoom, told, upsets, strayed, crossed, shared, unsaid, kicked>>
  BY DEF Enter, causes
<1>2. PICK c \in Free : talk' = [talk EXCEPT ![c] = NewTalk("enter", t, "find")]
  BY DEF Enter
<1>3. /\ TalkTyped' /\ BusyTabs' /\ Paths' /\ JoinsIn'
      /\ \A u \in Tabs : /\ Gone(u)' => Gone(u)
                         /\ Coming(u) => Coming(u)'
                         /\ LeavingBy(u) => LeavingBy(u)'
      /\ \A d \in Talks : Taking(d)' => Taking(d)
      /\ \A j \in Talks : Telling(j) => Telling(j)'
      /\ \A d \in Talks, u \in Tabs : (Quits(d, u)' => Quits(d, u)) /\ (Joining(d, u) => Joining(d, u)')
      /\ over = "announced" => \A d \in Talks, u \in Tabs :
            Acts(d, "enter", u)' /\ talk'[d].pc # "find" => u \in strayed'
  BY <1>1, <1>2, NewKeeps, KindsAndPCs
<1>4. AttendanceTypeOK' BY <1>1, <1>3, Unpacked DEF AttendanceTypeOK, TalkTyped
<1>5. SocketsIn' /\ DownStrayed' BY <1>1, Unpacked DEF SocketsIn, DownStrayed, InMeeting
<1>6. Accounted' BY <1>1, <1>3, Unpacked DEF Accounted, InMeeting
<1>7. PresenceInv' BY <1>1, <1>3, Unpacked DEF PresenceInv
<1>8. RoomInv' BY <1>1, <1>3, Unpacked DEF RoomInv
<1>9. ToldInv' BY <1>1, <1>3, Unpacked DEF ToldInv, InMeeting
<1>10. QED BY <1>3, <1>4, <1>5, <1>6, <1>7, <1>8, <1>9 DEF AInv

LEMMA AnnounceKeeps ==
  ASSUME AInv, NEW t \in Tabs, Announce(t)
  PROVE  AInv'
<1>1. /\ sock[t] = "new" /\ sock' = [sock EXCEPT ![t] = "up"]
      /\ UNCHANGED <<over, present, pages, store, inRoom, told, upsets, strayed, crossed, shared, unsaid, kicked>>
  BY DEF Announce, causes
<1>2. PICK c \in Free : talk' = [talk EXCEPT ![c] = NewTalk("join", t, "find")]
  BY DEF Announce
<1>3. InMeeting(t) BY <1>1, Unpacked DEF SocketsIn
<1>4. /\ TalkTyped' /\ BusyTabs' /\ Paths' /\ JoinsIn'
      /\ \A u \in Tabs : /\ Gone(u)' => Gone(u)
                         /\ Coming(u) => Coming(u)'
                         /\ LeavingBy(u) => LeavingBy(u)'
      /\ \A d \in Talks : Taking(d)' => Taking(d)
      /\ \A d \in Talks, u \in Tabs : (Quits(d, u)' => Quits(d, u)) /\ (Joining(d, u) => Joining(d, u)')
      /\ over = "announced" => \A d \in Talks, u \in Tabs :
            Acts(d, "enter", u)' /\ talk'[d].pc # "find" => u \in strayed'
  BY <1>1, <1>2, <1>3, NewKeeps, KindsAndPCs
<1>5. /\ c \in Talks /\ talk'[c].pc = "find" /\ talk'[c].kind = "join" /\ talk'[c].tab = t
      /\ talk'[c].live /\ talk'[c].before = Busy
  BY <1>1, <1>2, <1>3, NewKeeps, KindsAndPCs
<1>6. sock'[t] = "up" /\ \A u \in Tabs : u # t => sock'[u] = sock[u]
  BY <1>1, Unpacked DEF AttendanceTypeOK
<1>7. AttendanceTypeOK' BY <1>1, <1>4, Unpacked DEF AttendanceTypeOK, TalkTyped
<1>8. SocketsIn' /\ DownStrayed'
  BY <1>1, <1>3, <1>6, Unpacked DEF SocketsIn, DownStrayed, InMeeting
<1>9. Accounted' BY <1>1, <1>4, Unpacked DEF Accounted, InMeeting
<1>10. PresenceInv'
  <2>1. Telling(c)' BY <1>4, <1>5 DEF Telling, Taking, Busy
  <2>2. QED BY <1>5, <2>1 DEF PresenceInv
<1>11. RoomInv'
  <2>1. Joining(c, t)' BY <1>4, <1>5 DEF Joining, Acts, Quits, Busy
  <2>2. QED BY <1>1, <1>4, <1>5, <1>6, <2>1, Unpacked DEF RoomInv
<1>12. ToldInv'
  <2>1. over' = "announced" /\ ~crossed' =>
          \A u \in Tabs : InMeeting(u)' /\ u \notin strayed' => sock'[u] = "up" /\ u \in told'
    BY <1>1, <1>3, <1>6, Unpacked DEF ToldInv, InMeeting
  <2>2. QED BY <1>1, <1>4, <2>1 DEF ToldInv
<1>13. QED BY <1>4, <1>7, <1>8, <1>9, <1>10, <1>11, <1>12 DEF AInv

LEMMA TakeLeaveKeeps ==
  ASSUME AInv, NEW t \in Tabs, TakeLeave(t)
  PROVE  AInv'
<1>1. /\ InMeeting(t) /\ shared' = (shared \/ OtherIn(t))
      /\ UNCHANGED <<over, present, pages, store, sock, inRoom, told, upsets, strayed, crossed, unsaid, kicked>>
  BY DEF TakeLeave, pageVars
<1>2. PICK c \in Free : talk' = [talk EXCEPT ![c] = NewTalk("bye", t, "row")]
  BY DEF TakeLeave
<1>3. /\ TalkTyped' /\ BusyTabs' /\ Paths' /\ JoinsIn'
      /\ \A u \in Tabs : /\ Gone(u)' => Gone(u)
                         /\ Coming(u) => Coming(u)'
                         /\ LeavingBy(u) => LeavingBy(u)'
      /\ \A d \in Talks, u \in Tabs : (Quits(d, u)' => Quits(d, u)) /\ (Joining(d, u) => Joining(d, u)')
      /\ over = "announced" => \A d \in Talks, u \in Tabs :
            Acts(d, "enter", u)' /\ talk'[d].pc # "find" => u \in strayed'
  BY <1>1, <1>2, NewKeeps, KindsAndPCs
<1>4. /\ c \in Talks /\ talk'[c].pc = "row" /\ talk'[c].kind = "bye" /\ talk'[c].tab = t
      /\ talk'[c].live
  BY <1>1, <1>2, NewKeeps, KindsAndPCs
<1>5. AttendanceTypeOK'
  <2>1. shared' \in BOOLEAN BY <1>1, Unpacked DEF AttendanceTypeOK, OtherIn
  <2>2. QED BY <1>1, <1>3, <2>1, Unpacked DEF AttendanceTypeOK, TalkTyped
<1>6. SocketsIn' /\ DownStrayed' BY <1>1, Unpacked DEF SocketsIn, DownStrayed, InMeeting
<1>7. Accounted' BY <1>1, <1>3, Unpacked DEF Accounted, InMeeting
<1>8. PresenceInv'
  <2>1. LeavingBy(t)' BY <1>4 DEF LeavingBy, Acts
  <2>2. ~shared' => \A u \in Tabs : u # t => sock[u] = "none" BY <1>1, AloneThere
  <2>3. QED BY <1>1, <2>1, <2>2 DEF PresenceInv
<1>9. RoomInv' BY <1>1, <1>3, Unpacked DEF RoomInv
<1>10. ToldInv' BY <1>1, <1>3, Unpacked DEF ToldInv, InMeeting
<1>11. QED BY <1>3, <1>5, <1>6, <1>7, <1>8, <1>9, <1>10 DEF AInv

(* A page takes its leave and announces itself: the join that comes last   *)
(* will put right what the leave undoes.                                   *)
LEMMA ReannounceKeeps ==
  ASSUME AInv, NEW t \in Tabs, sock[t] \in {"up", "down"}, Reannounce(t), Found(t),
         sock' = [sock EXCEPT ![t] = "up"], upsets' \in 0..MaxUpsets,
         UNCHANGED <<over, present, pages, store, inRoom, told, crossed, shared, unsaid, kicked>>
  PROVE  AInv'
<1>1. TalkTyped' BY ReannounceMoves, Unpacked
<1>2. PICK c \in Talks, d \in Talks :
        /\ c # d /\ talk[c].pc = "idle" /\ talk[d].pc = "idle"
        /\ talk'[c].pc = "row" /\ talk'[c].kind = "leave" /\ talk'[c].tab = t
        /\ talk'[c].live /\ talk'[c].before = Busy
        /\ talk'[d].pc = "find" /\ talk'[d].kind = "join" /\ talk'[d].tab = t
        /\ talk'[d].live /\ talk'[d].before = Busy \cup {c}
        /\ \A b \in Talks : b \notin {c, d} => Stays(b, {})
  BY ReannounceMoves, Unpacked
<1>3. \A b \in Talks : b # c /\ b # d =>
        /\ talk'[b].pc = talk[b].pc
        /\ talk'[b].kind = talk[b].kind /\ talk'[b].tab = talk[b].tab
        /\ talk'[b].live <=> talk[b].live
        /\ talk'[b].before = talk[b].before
  BY <1>2 DEF Stays
<1>4. InMeeting(t) BY Unpacked DEF SocketsIn
<1>5. /\ sock'[t] = "up" /\ \A u \in Tabs : u # t => sock'[u] = sock[u]
      /\ sock' \in [Tabs -> {"none", "new", "up", "down"}]
  BY Unpacked DEF AttendanceTypeOK
<1>6. /\ strayed' \subseteq strayed /\ strayed \subseteq strayed' \cup {t}
      /\ over = "announced" => strayed' = strayed
  BY DEF Found
<1>7. \A b \in Talks, u \in Tabs, q \in Kinds :
        /\ Acts(b, q, u) => b # c /\ b # d /\ Acts(b, q, u)'
        /\ Acts(b, q, u)' => Acts(b, q, u) \/ (u = t /\ b = c /\ q = "leave")
                                           \/ (u = t /\ b = d /\ q = "join")
  BY <1>2, <1>3 DEF Acts
<1>8. AttendanceTypeOK' BY <1>1, <1>5, <1>6, Unpacked DEF AttendanceTypeOK, TalkTyped
<1>9. BusyTabs' /\ Paths' BY <1>2, <1>3, KindsAndPCs, Unpacked DEF BusyTabs, Paths
<1>10. SocketsIn' /\ DownStrayed'
  BY <1>4, <1>5, <1>6, Unpacked DEF SocketsIn, DownStrayed, InMeeting
<1>11. JoinsIn'
  <2>1. SUFFICES ASSUME NEW b \in Talks, NEW u \in Tabs, Acts(b, "join", u)', talk'[b].live
                 PROVE  InMeeting(u)
    BY DEF JoinsIn, InMeeting
  <2>2. CASE u = t BY <1>4, <2>2
  <2>3. CASE u # t BY <1>3, <1>7, <2>1, <2>3, KindsAndPCs, Unpacked DEF JoinsIn
  <2>4. QED BY <2>2, <2>3
<1>12. Accounted'
  <2>1. \A u \in Tabs : Gone(u)' => Gone(u) BY <1>3, <1>7, KindsAndPCs DEF Gone
  <2>2. \A u \in Tabs : Coming(u) => Coming(u)' BY <1>3, <1>7, KindsAndPCs DEF Coming
  <2>3. QED BY <2>1, <2>2, Unpacked DEF Accounted, InMeeting
<1>13. PresenceInv'
  <2>1. \A b \in Talks : Taking(b)' => b \in talk'[d].before
    BY <1>2, <1>3, KindsAndPCs DEF Taking, Busy
  <2>2. Telling(d)' BY <1>2, <2>1 DEF Telling
  <2>3. QED BY <1>2, <2>2 DEF PresenceInv
<1>14. RoomInv'
  <2>1. SUFFICES ASSUME over # "announced", ~crossed,
                        NEW u \in Tabs, sock'[u] = "up", u \notin strayed'
                 PROVE  \/ \E j \in Talks : Joining(j, u)'
                        \/ u \in inRoom /\ \A b \in Talks : ~Quits(b, u)'
    BY DEF RoomInv
  <2>2. CASE u = t
    <3>1. \A b \in Talks : Quits(b, t)' => b \in talk'[d].before
      BY <1>2, <1>3 DEF Quits, Acts, Busy
    <3>2. Joining(d, t)' BY <1>2, <3>1 DEF Joining, Acts
    <3>3. QED BY <1>2, <2>2, <3>2
  <2>3. CASE u # t
    <3>1. \A b \in Talks : Quits(b, u)' => Quits(b, u)
      BY <1>3, <1>7, <2>3, KindsAndPCs DEF Quits
    <3>2. \A j \in Talks : Joining(j, u) => Joining(j, u)'
      BY <1>3, <1>7, <3>1, KindsAndPCs DEF Joining
    <3>3. sock[u] = "up" /\ u \notin strayed BY <1>5, <1>6, <2>1, <2>3
    <3>4. QED BY <2>1, <3>1, <3>2, <3>3, Unpacked DEF RoomInv
  <2>4. QED BY <2>2, <2>3
<1>15. ToldInv'
  <2>1. over' = "announced" /\ ~crossed' =>
          \A u \in Tabs : InMeeting(u)' /\ u \notin strayed' => sock'[u] = "up" /\ u \in told'
    BY <1>5, <1>6, Unpacked DEF ToldInv, InMeeting
  <2>2. over' = "announced" =>
          \A b \in Talks, u \in Tabs : Acts(b, "enter", u)' /\ talk'[b].pc # "find" => u \in strayed'
    BY <1>3, <1>6, <1>7, KindsAndPCs, Unpacked DEF ToldInv
  <2>3. QED BY <2>1, <2>2 DEF ToldInv
<1>16. QED BY <1>8, <1>9, <1>10, <1>11, <1>12, <1>13, <1>14, <1>15 DEF AInv

LEMMA RenderKeeps ==
  ASSUME AInv, NEW t \in Tabs, Render(t)
  PROVE  AInv'
<1>1. /\ sock[t] = "up" /\ upsets < MaxUpsets /\ upsets' = upsets + 1
      /\ Reannounce(t) /\ Found(t)
      /\ UNCHANGED <<over, present, pages, store, sock, inRoom, told, crossed, shared, unsaid, kicked>>
  BY DEF Render, Upset, pageVars
<1>2. upsets' \in 0..MaxUpsets BY <1>1, AttendanceAssumption, Unpacked DEF AttendanceTypeOK
<1>3. sock' = [sock EXCEPT ![t] = "up"] BY <1>1, Unpacked DEF AttendanceTypeOK
<1>4. QED BY <1>1, <1>2, <1>3, ReannounceKeeps

LEMMA ReconnectKeeps ==
  ASSUME AInv, NEW t \in Tabs, Reconnect(t)
  PROVE  AInv'
<1>1. /\ sock[t] = "down" /\ sock' = [sock EXCEPT ![t] = "up"]
      /\ UNCHANGED <<over, present, pages, store, inRoom, told, upsets, crossed, shared, unsaid, kicked>>
  BY DEF Reconnect
<1>2. CASE Reannounce(t) /\ Found(t)
  <2>1. upsets' \in 0..MaxUpsets BY <1>1, Unpacked DEF AttendanceTypeOK
  <2>2. QED BY <1>1, <1>2, <2>1, ReannounceKeeps
<1>3. CASE UNCHANGED <<talk, strayed>>
  <2>1. t \in strayed BY <1>1, Unpacked DEF DownStrayed
  <2>2. /\ sock'[t] = "up" /\ \A u \in Tabs : u # t => sock'[u] = sock[u]
        /\ sock' \in [Tabs -> {"none", "new", "up", "down"}]
    BY <1>1, Unpacked DEF AttendanceTypeOK
  <2>3. AttendanceTypeOK' BY <1>1, <1>3, <2>2, Unpacked DEF AttendanceTypeOK
  <2>4. BusyTabs' /\ Paths' BY <1>3, Unpacked DEF BusyTabs, Paths
  <2>5. SocketsIn' /\ DownStrayed'
    BY <1>1, <1>3, <2>2, Unpacked DEF SocketsIn, DownStrayed, InMeeting
  <2>6. JoinsIn' BY <1>1, <1>3, Unpacked DEF JoinsIn, Acts, InMeeting
  <2>7. \A u \in Tabs : (Gone(u)' <=> Gone(u)) /\ (Coming(u)' <=> Coming(u)) /\ (LeavingBy(u)' <=> LeavingBy(u))
    BY <1>3 DEF Gone, Coming, LeavingBy, Acts
  <2>8. Accounted' BY <1>1, <2>7, Unpacked DEF Accounted, InMeeting
  <2>9. \A c \in Talks : (Taking(c)' <=> Taking(c)) /\ (Telling(c)' <=> Telling(c))
    BY <1>3 DEF Taking, Telling
  <2>10. PresenceInv' BY <1>1, <1>3, <2>1, <2>2, <2>7, <2>9, Unpacked DEF PresenceInv
  <2>11. \A c \in Talks, u \in Tabs : (Quits(c, u)' <=> Quits(c, u)) /\ (Joining(c, u)' <=> Joining(c, u))
    BY <1>3 DEF Quits, Joining, Acts
  <2>12. RoomInv' BY <1>1, <1>3, <2>1, <2>2, <2>11, Unpacked DEF RoomInv
  <2>13. ToldInv' BY <1>1, <1>3, <2>1, <2>2, Unpacked DEF ToldInv, InMeeting, Acts
  <2>14. QED BY <2>3, <2>4, <2>5, <2>6, <2>8, <2>10, <2>12, <2>13 DEF AInv
<1>4. QED BY <1>2, <1>3 DEF Reconnect

(* The socket of t is closed: what t was about is over, or goes on alone.  *)
LEMMA CloseKeeps ==
  ASSUME AInv, NEW t \in Tabs, NEW K, {"join", "leave"} \subseteq K, NEW done \in SUBSET Talks,
         \A c \in done : talk[c].kind = "bye",
         CloseSocket(t, K, done), UNCHANGED <<over, present, crossed, kicked>>,
         pages' \in SUBSET Tabs, upsets' \in 0..MaxUpsets, unsaid' \in BOOLEAN,
         store' \in [Tabs -> {"none", "full", "mini", "ended"}],
         sock' \in [Tabs -> {"none", "new", "up", "down"}],
         \A u \in Tabs : u # t => store'[u] = store[u] /\ sock'[u] = sock[u],
         sock'[t] \in {"none", "down"}, sock'[t] # "none" <=> InMeeting(t)',
         sock'[t] = "down" => t \in strayed',
         strayed' \in SUBSET Tabs, strayed \subseteq strayed' \cup {t},
         strayed' \subseteq strayed \cup {t},
         over = "announced" => strayed \subseteq strayed',
         ~unsaid' => ~unsaid /\ (InMeeting(t) => InMeeting(t)' \/ Gone(t))
  PROVE  AInv'
<1>1. /\ TalkTyped'
      /\ \A d \in Talks :
           \/ d \in done /\ talk'[d].pc = "idle"
           \/ talk[d].pc = "idle" /\ talk'[d].pc = "row" /\ talk'[d].kind = "gone"
                                  /\ talk'[d].tab = t
           \/ d \notin done /\ Orphaned(d, t, K) /\ talk'[d].before = talk[d].before \ done
  BY CloseMoves, Unpacked
<1>2. inRoom' = inRoom \ {t} /\ told' = told \ {t} /\ shared' = (shared \/ OtherIn(t))
  BY DEF CloseSocket
<1>3. ASSUME NEW d \in Talks, NEW q \in Kinds \ {"gone"}, NEW u \in Tabs, Acts(d, q, u)'
      PROVE  Acts(d, q, u) /\ talk'[d].pc = talk[d].pc /\ (talk'[d].live => talk[d].live /\ (u # t \/ q \notin K))
  BY <1>1, <1>3 DEF Acts, Orphaned
<1>4. ASSUME NEW d \in Talks, NEW q \in {"enter", "join", "leave"}, NEW u \in Tabs, Acts(d, q, u)
      PROVE  /\ Acts(d, q, u)' /\ talk'[d].pc = talk[d].pc
             /\ talk'[d].before = talk[d].before \ done
             /\ talk[d].live => talk'[d].live \/ (u = t /\ q \in K)
  BY <1>1, <1>4 DEF Acts, Orphaned
<1>5. AttendanceTypeOK'
  <2>1. inRoom' \subseteq Tabs /\ told' \subseteq Tabs /\ shared' \in BOOLEAN
    BY <1>2, Unpacked DEF AttendanceTypeOK, OtherIn
  <2>2. QED BY <1>1, <2>1, Unpacked DEF AttendanceTypeOK, TalkTyped
<1>6. BusyTabs' /\ Paths'
  BY <1>1, KindsAndPCs, Unpacked DEF BusyTabs, Paths, Orphaned
<1>7. \A u \in Tabs : u # t => (InMeeting(u)' <=> InMeeting(u)) BY DEF InMeeting
<1>8. SocketsIn' /\ DownStrayed'
  <2>1. SocketsIn' BY <1>7, Unpacked DEF SocketsIn
  <2>2. DownStrayed' BY Unpacked DEF DownStrayed
  <2>3. QED BY <2>1, <2>2
<1>9. JoinsIn'
  <2>1. SUFFICES ASSUME NEW d \in Talks, NEW u \in Tabs, Acts(d, "join", u)', talk'[d].live
                 PROVE  InMeeting(u)'
    BY DEF JoinsIn
  <2>2. Acts(d, "join", u) /\ talk[d].live /\ u # t BY <1>3, <2>1, KindsAndPCs
  <2>3. InMeeting(u) BY <2>2, Unpacked DEF JoinsIn
  <2>4. QED BY <1>7, <2>2, <2>3
<1>10. Accounted'
  <2>1. SUFFICES ASSUME present, ~unsaid'
                 PROVE  \E u \in Tabs : ~Gone(u)' /\ (InMeeting(u)' \/ Coming(u)')
    BY DEF Accounted
  <2>2. PICK u \in Tabs : ~Gone(u) /\ (InMeeting(u) \/ Coming(u))
    BY <2>1, Unpacked DEF Accounted
  <2>3. ~Gone(u)' BY <1>3, <2>2, KindsAndPCs DEF Gone
  <2>4. Coming(u) => Coming(u)' BY <1>4 DEF Coming
  <2>5. InMeeting(u) => InMeeting(u)' BY <1>7, <2>1, <2>2
  <2>6. QED BY <2>2, <2>3, <2>4, <2>5
<1>11. PresenceInv'
  <2>1. ~shared' => \A u \in Tabs : u # t => sock[u] = "none" BY <1>2, AloneThere
  <2>2. ~shared' => \A u \in Tabs : sock'[u] # "up" BY <2>1
  <2>3. QED BY <2>2 DEF PresenceInv
<1>12. RoomInv'
  <2>1. SUFFICES ASSUME over # "announced", ~crossed,
                        NEW u \in Tabs, sock'[u] = "up", u \notin strayed'
                 PROVE  \/ \E j \in Talks : Joining(j, u)'
                        \/ u \in inRoom' /\ \A b \in Talks : ~Quits(b, u)'
    BY DEF RoomInv
  <2>2. u # t /\ sock[u] = "up" /\ u \notin strayed BY <2>1
  <2>3. ASSUME NEW b \in Talks, Quits(b, u)' PROVE Quits(b, u) /\ b \notin done
    <3>1. Acts(b, "leave", u) /\ talk[b].live BY <1>3, <2>3, KindsAndPCs DEF Quits
    <3>2. QED BY <3>1 DEF Quits, Acts
  <2>4. ASSUME NEW j \in Talks, Joining(j, u) PROVE Joining(j, u)'
    <3>1. Acts(j, "join", u)' /\ talk'[j].live /\ talk'[j].before = talk[j].before \ done
      BY <1>4, <2>2, <2>4 DEF Joining
    <3>2. QED BY <2>3, <2>4, <3>1 DEF Joining
  <2>5. u \in inRoom => u \in inRoom' BY <1>2, <2>2
  <2>6. QED BY <2>1, <2>2, <2>3, <2>4, <2>5, Unpacked DEF RoomInv
<1>13. ToldInv'
  <2>1. over' = "announced" /\ ~crossed' =>
          \A u \in Tabs : InMeeting(u)' /\ u \notin strayed' => sock'[u] = "up" /\ u \in told'
    BY <1>2, <1>7, Unpacked DEF ToldInv
  <2>2. over' = "announced" =>
          \A d \in Talks, u \in Tabs : Acts(d, "enter", u)' /\ talk'[d].pc # "find" => u \in strayed'
    BY <1>3, KindsAndPCs, Unpacked DEF ToldInv
  <2>3. QED BY <2>1, <2>2 DEF ToldInv
<1>14. QED BY <1>5, <1>6, <1>8, <1>9, <1>10, <1>11, <1>12, <1>13 DEF AInv

LEMMA DropKeeps ==
  ASSUME AInv, NEW t \in Tabs, DropConnection(t)
  PROVE  AInv'
<1>1. /\ sock[t] = "up" /\ upsets < MaxUpsets /\ upsets' = upsets + 1
      /\ sock' = [sock EXCEPT ![t] = "down"] /\ strayed' = strayed \cup {t}
      /\ CloseSocket(t, {"join", "leave"}, {})
      /\ UNCHANGED <<over, present, pages, store, crossed, unsaid, kicked>>
  BY DEF DropConnection, Upset
<1>2. /\ upsets' \in 0..MaxUpsets /\ unsaid' \in BOOLEAN /\ strayed' \in SUBSET Tabs
      /\ pages' \in SUBSET Tabs /\ store' \in [Tabs -> {"none", "full", "mini", "ended"}]
  BY <1>1, AttendanceAssumption, Unpacked DEF AttendanceTypeOK
<1>3. /\ sock' \in [Tabs -> {"none", "new", "up", "down"}] /\ sock'[t] = "down"
      /\ \A u \in Tabs : u # t => store'[u] = store[u] /\ sock'[u] = sock[u]
  BY <1>1, Unpacked DEF AttendanceTypeOK
<1>4. InMeeting(t) BY <1>1, Unpacked DEF SocketsIn
<1>5. InMeeting(t)' BY <1>1, <1>4 DEF InMeeting
<1>6. QED BY <1>1, <1>2, <1>3, <1>5, CloseKeeps

(* The shell of t is gone, and its socket with it. *)
LEMMA DepartsKeeps ==
  ASSUME AInv, NEW t \in Tabs, NEW done \in SUBSET Talks,
         \A c \in done : talk[c].kind = "bye", Departs(t, done),
         UNCHANGED <<over, present, pages, crossed, kicked>>,
         upsets' \in 0..MaxUpsets, unsaid' \in BOOLEAN,
         ~unsaid' => ~unsaid /\ Gone(t)
  PROVE  AInv'
<1>1. /\ store' = [store EXCEPT ![t] = IF @ = "full" THEN "ended" ELSE "none"]
      /\ sock' = [sock EXCEPT ![t] = "none"]
      /\ Found(t) /\ CloseSocket(t, {"join", "leave", "bye"}, done)
  BY DEF Departs
<1>2. /\ pages' \in SUBSET Tabs /\ strayed' \in SUBSET Tabs
      /\ strayed \subseteq strayed' \cup {t} /\ strayed' \subseteq strayed \cup {t}
      /\ over = "announced" => strayed \subseteq strayed'
  BY <1>1, Unpacked DEF AttendanceTypeOK, Found
<1>3. /\ store' \in [Tabs -> {"none", "full", "mini", "ended"}]
      /\ sock' \in [Tabs -> {"none", "new", "up", "down"}]
      /\ \A u \in Tabs : u # t => store'[u] = store[u] /\ sock'[u] = sock[u]
      /\ store'[t] \in {"ended", "none"} /\ sock'[t] = "none"
  BY <1>1, Unpacked DEF AttendanceTypeOK
<1>4. ~InMeeting(t)' BY <1>3 DEF InMeeting
<1>5. QED BY <1>1, <1>2, <1>3, <1>4, CloseKeeps

LEMMA LeaveAnsweredKeeps ==
  ASSUME AInv, NEW c \in Talks, LeaveAnswered(c)
  PROVE  AInv'
<1>1. /\ talk[c].pc = "after" /\ talk[c].kind = "bye"
      /\ UNCHANGED <<over, present, pages, upsets, crossed, unsaid, kicked>>
  BY DEF LeaveAnswered
<1>2. /\ present \in BOOLEAN /\ unsaid \in BOOLEAN /\ crossed \in BOOLEAN
      /\ shared \in BOOLEAN /\ kicked \in BOOLEAN
      /\ upsets \in 0..MaxUpsets /\ strayed \in SUBSET Tabs
  BY Unpacked DEF AttendanceTypeOK
<1>3. CASE talk[c].live
  <2>1. PICK t \in Tabs : t = talk[c].tab BY <1>1, Unpacked DEF BusyTabs
  <2>2. Departs(t, {c}) BY <1>3, <2>1 DEF LeaveAnswered
  <2>3. Gone(t) BY <1>1, <2>1 DEF Gone, Acts
  <2>4. \A d \in {c} : talk[d].kind = "bye" BY <1>1
  <2>5. {c} \in SUBSET Talks OBVIOUS
  <2>6. QED BY <1>1, <1>2, <2>2, <2>3, <2>4, <2>5, DepartsKeeps
<1>4. CASE ~talk[c].live
  <2>1. TalkDone(c) /\ UNCHANGED <<store, sock, inRoom, told, strayed, shared>>
    BY <1>4 DEF LeaveAnswered
  <2>2. ~Taking(c) BY <1>1 DEF Taking
  <2>3. QED BY <1>1, <1>2, <1>4, <2>1, <2>2, DoneKeeps
<1>5. QED BY <1>3, <1>4

LEMMA PutOutKeeps ==
  ASSUME AInv, NEW t \in Tabs, PutOut(t) \/ MeetingEnded(t)
  PROVE  AInv'
<1>1. /\ Departs(t, {}) /\ unsaid' = TRUE /\ UNCHANGED <<over, present, pages, crossed, kicked>>
      /\ upsets' = upsets \/ (upsets < MaxUpsets /\ upsets' = upsets + 1)
  BY DEF PutOut, MeetingEnded, Upset
<1>2. upsets' \in 0..MaxUpsets
  BY <1>1, AttendanceAssumption, Unpacked DEF AttendanceTypeOK
<1>3. QED BY <1>1, <1>2, DepartsKeeps

LEMMA CloseTabKeeps ==
  ASSUME AInv, NEW t \in Tabs, CloseTab(t)
  PROVE  AInv'
<1>1. /\ upsets < MaxUpsets /\ upsets' = upsets + 1 /\ pages' = pages \ {t}
      /\ store' = [store EXCEPT ![t] = "none"] /\ sock' = [sock EXCEPT ![t] = "none"]
      /\ Found(t) /\ CloseSocket(t, Kinds, {})
      /\ unsaid' = (unsaid \/ InMeeting(t)) /\ UNCHANGED <<over, present, crossed, kicked>>
  BY DEF CloseTab, Upset
<1>2. /\ upsets' \in 0..MaxUpsets /\ pages' \in SUBSET Tabs
      /\ strayed' \in SUBSET Tabs
      /\ strayed \subseteq strayed' \cup {t} /\ strayed' \subseteq strayed \cup {t}
      /\ over = "announced" => strayed \subseteq strayed'
  BY <1>1, AttendanceAssumption, Unpacked DEF AttendanceTypeOK, Found
<1>3. /\ store' \in [Tabs -> {"none", "full", "mini", "ended"}]
      /\ sock' \in [Tabs -> {"none", "new", "up", "down"}]
      /\ \A u \in Tabs : u # t => store'[u] = store[u] /\ sock'[u] = sock[u]
      /\ store'[t] = "none" /\ sock'[t] = "none"
  BY <1>1, Unpacked DEF AttendanceTypeOK
<1>4. ~InMeeting(t)' BY <1>3 DEF InMeeting
<1>5. unsaid' \in BOOLEAN BY <1>1, Unpacked DEF AttendanceTypeOK, InMeeting
<1>6. {"join", "leave"} \subseteq Kinds BY DEF Kinds
<1>7. ~unsaid' => ~unsaid /\ (InMeeting(t) => InMeeting(t)' \/ Gone(t)) BY <1>1
<1>8. /\ sock'[t] \in {"none", "down"} /\ (sock'[t] # "none" <=> InMeeting(t)')
      /\ (sock'[t] = "down" => t \in strayed')
  BY <1>3, <1>4
<1>9. QED BY <1>1, <1>2, <1>3, <1>5, <1>6, <1>7, <1>8, CloseKeeps

-----------------------------------------------------------------------------
(* Theorems. *)

LEMMA InitInv == AttendanceInit => AInv
<1> SUFFICES ASSUME AttendanceInit PROVE AInv
  OBVIOUS
<1>1. talk \in [Talks -> Talk] /\ \A c \in Talks : talk[c].pc = "idle"
  BY NoTalkFields DEF AttendanceInit
<1>2. AttendanceTypeOK
  <2>1. upsets \in 0..MaxUpsets BY AttendanceAssumption DEF AttendanceInit
  <2>2. present \in BOOLEAN /\ crossed \in BOOLEAN /\ shared \in BOOLEAN /\ unsaid \in BOOLEAN
        /\ kicked \in BOOLEAN
    BY ZenonT(30) DEF AttendanceInit
  <2>3. /\ store \in [Tabs -> {"none", "full", "mini", "ended"}]
        /\ sock \in [Tabs -> {"none", "new", "up", "down"}]
    BY DEF AttendanceInit
  <2>4. over \in {"no", "silent", "marked", "announced"} /\ pages \subseteq Tabs
        /\ inRoom \subseteq Tabs /\ told \subseteq Tabs /\ strayed \subseteq Tabs
    BY DEF AttendanceInit
  <2>5. QED BY <1>1, <2>1, <2>2, <2>3, <2>4 DEF AttendanceTypeOK
<1>3. BusyTabs /\ Paths /\ JoinsIn BY <1>1 DEF BusyTabs, Paths, JoinsIn, Acts
<1>4. SocketsIn /\ DownStrayed BY DEF AttendanceInit, SocketsIn, DownStrayed, InMeeting
<1>5. Accounted BY DEF AttendanceInit, Accounted
<1>6. PresenceInv /\ RoomInv /\ ToldInv BY DEF AttendanceInit, PresenceInv, RoomInv, ToldInv
<1>7. QED BY <1>2, <1>3, <1>4, <1>5, <1>6 DEF AInv

LEMMA HandlerKeeps ==
  ASSUME AInv, NEW c \in Talks, TalkStep(c)
  PROVE  AInv'
<1>1. CASE FindMeeting(c) BY <1>1, FindKeeps
<1>2. CASE UpsertParticipant(c) BY <1>2, UpsertKeeps
<1>3. CASE MintToken(c) BY <1>3, MintKeeps
<1>4. CASE StartSession(c) BY <1>4, StartKeeps
<1>5. CASE JoinRoom(c) \/ LeaveRoom(c) BY <1>5, RoomKeeps
<1>6. CASE MarkParticipantLeft(c) BY <1>6, MarkLeftKeeps
<1>7. CASE QueryFails(c) BY <1>7, QueryFailsKeeps
<1>8. CASE LeaveAnswered(c) BY <1>8, LeaveAnsweredKeeps
<1>9. QED BY <1>1, <1>2, <1>3, <1>4, <1>5, <1>6, <1>7, <1>8 DEF TalkStep

LEMMA TabKeeps ==
  ASSUME AInv, NEW t \in Tabs, TabStep(t)
  PROVE  AInv'
<1>1. CASE OpenPage(t) \/ ClosePage(t) BY <1>1, PageKeeps
<1>2. CASE Enter(t) BY <1>2, EnterKeeps
<1>3. CASE TakeLeave(t) BY <1>3, TakeLeaveKeeps
<1>4. CASE PutOut(t) \/ MeetingEnded(t) BY <1>4, PutOutKeeps
<1>5. CASE CloseTab(t) BY <1>5, CloseTabKeeps
<1>6. CASE Announce(t) BY <1>6, AnnounceKeeps
<1>7. CASE Render(t) BY <1>7, RenderKeeps
<1>8. CASE DropConnection(t) BY <1>8, DropKeeps
<1>9. CASE Reconnect(t) BY <1>9, ReconnectKeeps
<1>10. QED BY <1>1, <1>2, <1>3, <1>4, <1>5, <1>6, <1>7, <1>8, <1>9 DEF TabStep

LEMMA StepInv == AInv /\ [AttendanceNext]_attendanceVars => AInv'
<1> SUFFICES ASSUME AInv, [AttendanceNext]_attendanceVars PROVE AInv'
  OBVIOUS
<1>1. ASSUME NEW c \in Talks, TalkStep(c) PROVE AInv' BY <1>1, HandlerKeeps
<1>2. ASSUME NEW t \in Tabs, TabStep(t) PROVE AInv' BY <1>2, TabKeeps
<1>3. CASE MarkEnded BY <1>3, MarkEndedKeeps
<1>4. CASE EmitEnded BY <1>4, EmitEndedKeeps
<1>5. CASE ForceEnd BY <1>5, ForceEndKeeps
<1>6. CASE KickParticipant BY <1>6, KickKeeps
<1>7. CASE UNCHANGED attendanceVars
  BY <1>7, QuietKeeps, Unpacked
  DEF attendanceVars, pageVars, causes, AttendanceTypeOK, InMeeting
<1>8. QED BY <1>1, <1>2, <1>3, <1>4, <1>5, <1>6, <1>7 DEF AttendanceNext

(* What is true of every state: pages, sockets, the room and the handlers  *)
(* fit together as AInv says.                                              *)
THEOREM AttendanceInvariance == AttendanceSpec => []AInv
<1>1. QED BY InitInv, StepInv, PTL DEF AttendanceSpec

(* Rooms, sockets, stores and handlers keep their types. *)
THEOREM AttendanceTyped == AttendanceSpec => []AttendanceTypeOK
<1>1. AInv => AttendanceTypeOK BY DEF AInv
<1>2. QED BY <1>1, AttendanceInvariance, PTL

LEMMA QuietIdle ==
  ASSUME Quiet
  PROVE  /\ told = {} /\ \A c \in Talks : talk[c].pc = "idle"
         /\ \A t \in Tabs : sock[t] # "new"
BY DEF Quiet, Busy

(* Once the handlers are done, a page that is in a meeting going on is in  *)
(* its room, and its user is present: unless it came back to the gateway   *)
(* without a word, or its joining failed, or one of the two holds of the   *)
(* user's other tab, or that went, or the gateway served a join and a      *)
(* leave in another order than they were sent, or the console has marked   *)
(* the user as left.                                                       *)
THEOREM InIsPresent == AttendanceSpec => []InMeansPresent
<1>1. AInv => InMeansPresent
  <2>1. SUFFICES ASSUME AInv, Quiet, over = "no", ~shared, ~crossed,
                        NEW t \in Tabs, InMeeting(t), sock[t] = "up", t \notin strayed
                 PROVE  t \in inRoom /\ (present \/ kicked)
    BY DEF InMeansPresent
  <2>2. \A c \in Talks : talk[c].pc = "idle" BY <2>1, QuietIdle
  <2>3. \A j \in Talks : ~Joining(j, t) BY <2>2 DEF Joining, Acts
  <2>4. t \in inRoom BY <2>1, <2>3, Unpacked DEF RoomInv
  <2>5. ~LeavingBy(t) /\ \A j \in Talks : ~Telling(j)
    BY <2>2 DEF LeavingBy, Acts, Telling
  <2>6. present \/ kicked BY <2>1, <2>5, Unpacked DEF PresenceInv
  <2>7. QED BY <2>4, <2>6
<1>2. QED BY <1>1, AttendanceInvariance, PTL

(* Who left by the controls is marked as gone once the handlers are done,  *)
(* in whatever order they were served: unless the tab, or the call, went   *)
(* without the server being told, or a tab was not let in after its        *)
(* joining had been recorded.                                              *)
THEOREM OutIsLeft == AttendanceSpec => []OutMeansLeft
<1>1. AInv => OutMeansLeft
  <2>1. SUFFICES ASSUME AInv, Quiet, ~unsaid, \A t \in Tabs : ~InMeeting(t), present
                 PROVE  FALSE
    BY DEF OutMeansLeft
  <2>2. \A c \in Talks : talk[c].pc = "idle" BY <2>1, QuietIdle
  <2>3. \A t \in Tabs : ~Coming(t) BY <2>2 DEF Coming, Acts
  <2>4. QED BY <2>1, <2>3, Unpacked DEF Accounted
<1>2. QED BY <1>1, AttendanceInvariance, PTL

(* When the end of a meeting is announced, every page that is connected    *)
(* and had told the gateway that it is in the meeting is told to leave it. *)
(* The console announces no end.                                           *)
THEOREM EndReaches == AttendanceSpec => []EndReachesPages
<1>1. AInv => EndReachesPages
  <2>1. SUFFICES ASSUME AInv, Quiet, over = "announced", ~crossed,
                        NEW t \in Tabs, InMeeting(t), t \notin strayed
                 PROVE  sock[t] = "down"
    BY DEF EndReachesPages
  <2>2. told = {} BY <2>1, QuietIdle
  <2>3. QED BY <2>1, <2>2, Unpacked DEF ToldInv
<1>2. QED BY <1>1, AttendanceInvariance, PTL


-----------------------------------------------------------------------------
(* The waiting room and the attendance next to each other. *)

(* A behaviour in which one of the two moves is a behaviour of both: what  *)
(* is proved of either holds of what the run of the gateway explores.      *)
THEOREM GatewayComposes == GatewaySpec => Spec /\ AttendanceSpec
<1>1. GatewayInit => Init /\ AttendanceInit BY DEF GatewayInit
<1>2. [GatewayNext]_gatewayVars => [Next]_vars /\ [AttendanceNext]_attendanceVars
  <2>1. ASSUME UNCHANGED gatewayVars PROVE UNCHANGED vars /\ UNCHANGED attendanceVars
    BY <2>1 DEF gatewayVars
  <2>2. QED BY <2>1 DEF GatewayNext
<1>3. QED BY <1>1, <1>2, PTL DEF GatewaySpec, Spec, AttendanceSpec

(* The variables of both keep their types. *)
LEMMA GatewayTyped == GatewaySpec => []GatewayTypeOK
<1>1. TypeOK /\ AttendanceTypeOK => GatewayTypeOK BY DEF GatewayTypeOK
<1>2. QED BY <1>1, GatewayComposes, TypeCorrect, AttendanceTyped, PTL

(* The gateway on one process keeps its types and its promises: nobody     *)
(* waits unparked but for a lost knock, every host sees every knock, only  *)
(* the host admits; who is in is present and who left is marked so, but    *)
(* for the causes that these properties name; an announced end reaches the *)
(* pages.  For any sockets, users, tabs and handlers.                      *)
THEOREM GatewayHolds ==
  ASSUME OneProcess
  PROVE  GatewaySpec =>
           /\ [](GatewayTypeOK /\ WaitingIsParked /\ HostSeesKnocks)
           /\ [](InMeansPresent /\ OutMeansLeft /\ EndReachesPages)
           /\ AdmittedByHost
<1>1. Spec => []HostSeesKnocks BY HostsSeeEveryKnock
<1>2. QED
  BY <1>1, GatewayComposes, GatewayTyped, NobodyWaitsUnparked, OnlyTheHostAdmits,
     InIsPresent, OutIsLeft, EndReaches, PTL
=============================================================================
