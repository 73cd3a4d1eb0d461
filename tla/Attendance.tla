----------------------------- MODULE Attendance -----------------------------
(***************************************************************************)
(* One user in one meeting that has started: the tabs in which the meeting *)
(* is opened, the socket each of them opens for it, the room at the        *)
(* gateway and the user's participant row.                                 *)
(*                                                                         *)
(* Grain.  One action is one access of a handler, an answer that reaches a *)
(* page, or an effect that a page runs.  Left out: the lookup and the      *)
(* knock before a page enters (Knock), the limit (Meeting), the deletion   *)
(* of the meeting, and what the media server does with a room after its    *)
(* meeting has ended but for putting its users out.  The gateway notices   *)
(* at once that a socket is closed.                                        *)
(***************************************************************************)
EXTENDS Naturals, FiniteSets

CONSTANTS
  Tabs, NoTab,
  Talks,          \* bound: the handlers that run at the same time
  MaxUpsets       \* bound: renderings, losses, reloads, failed queries, kicks

ASSUME AttendanceAssumption == MaxUpsets \in Nat /\ NoTab \notin Tabs

VARIABLES
  over,           \* the meeting: "no"; "silent" or "marked", ended in its row
                  \* by the console or another; "announced" to its room
  present,        \* a participant row of the user has no leftAt
  pages,          \* the tabs where the meeting's page is mounted
  store,          \* per tab: useActiveMeeting, its session full or minimized
  sock,           \* per tab: the socket of MeetingShell
  inRoom,         \* the tabs whose socket is in the room of the meeting
  told,           \* the tabs MEETING_ENDED is on its way to
  talk,           \* the handlers in flight
  upsets,
  strayed,        \* history, these five: see the properties
  crossed,
  shared,
  unsaid,
  kicked

pageVars       == <<pages, store, sock>>
causes         == <<strayed, crossed, shared, unsaid, kicked>>
attendanceVars == <<over, present, pageVars, inRoom, told, talk, upsets, causes>>

(* enter: REST join and token; join, leave: the gateway's onJoin, onLeave; *)
(* gone: its handleDisconnect; bye: REST leave.                            *)
Kinds   == {"enter", "join", "leave", "gone", "bye"}
TalkPCs == {"idle", "find", "row", "token", "after"}

(* live: the page, or the socket, it belongs to is still there.            *)
(* before: the handlers that were in flight already when it began.         *)
Talk == [pc: TalkPCs, kind: Kinds, tab: Tabs \cup {NoTab}, live: BOOLEAN, before: SUBSET Talks]

AttendanceTypeOK ==
  /\ over \in {"no", "silent", "marked", "announced"}
  /\ present \in BOOLEAN /\ pages \subseteq Tabs
  /\ store \in [Tabs -> {"none", "full", "mini", "ended"}]
  /\ sock \in [Tabs -> {"none", "new", "up", "down"}]
  /\ inRoom \subseteq Tabs /\ told \subseteq Tabs /\ strayed \subseteq Tabs
  /\ talk \in [Talks -> Talk]
  /\ upsets \in 0..MaxUpsets
  /\ crossed \in BOOLEAN /\ shared \in BOOLEAN /\ unsaid \in BOOLEAN /\ kicked \in BOOLEAN

NoTalk == [pc |-> "idle", kind |-> "enter", tab |-> NoTab,
           live |-> FALSE, before |-> {}]

(* A host has a participant row from the start. *)
AttendanceInit ==
  /\ over = "no" /\ present \in BOOLEAN
  /\ pages = {} /\ store = [t \in Tabs |-> "none"] /\ sock = [t \in Tabs |-> "none"]
  /\ inRoom = {} /\ told = {}
  /\ talk = [c \in Talks |-> NoTalk]
  /\ upsets = 0
  /\ strayed = {} /\ crossed = FALSE /\ shared = FALSE /\ unsaid = present /\ kicked = FALSE

-----------------------------------------------------------------------------
(* Handlers. *)

Busy == {c \in Talks : talk[c].pc # "idle"}
Free == Talks \ Busy

InKinds == {"enter", "join"}

NewTalk(k, t, pc) ==
  [pc |-> pc, kind |-> k, tab |-> t, live |-> TRUE, before |-> Busy]

TalkGoto(c, pc) == talk' = [talk EXCEPT ![c].pc = pc]

(* c is done; nobody has to wait for it any longer. *)
TalkDone(c) ==
  talk' = [d \in Talks |-> IF d = c THEN NoTalk
                           ELSE [talk[d] EXCEPT !.before = @ \ {c}]]

(* c takes effect before one that was sent earlier and says the opposite,  *)
(* on the row or on the room.                                              *)
Opposite(c) == {b \in talk[c].before : (talk[b].kind \in InKinds) # (talk[c].kind \in InKinds)}

CrossesRow(c)  == \E b \in Opposite(c) : talk[b].pc \in {"find", "row"}
CrossesRoom(c) == \E b \in Opposite(c) : talk[b].kind \in {"join", "leave"}
                                          /\ talk[b].tab = talk[c].tab

InMeeting(t) == store[t] \in {"full", "mini"}

(* Another tab of the user is in the meeting, or about to be. *)
OtherIn(t) == \E u \in Tabs \ {t} :
  InMeeting(u) \/ \E c \in Busy : talk[c].kind = "enter" /\ talk[c].tab = u

(* The socket of t is closed: it leaves the room, and the handlers of the  *)
(* kinds K go on with nobody left to answer; those of done end here.       *)
(* Whether client.rooms still lists the room when handleDisconnect runs,   *)
(* and has it mark the user as left, is up to the library.                 *)
CloseSocket(t, K, done) ==
  LET Closed(c) == talk[c].tab = t /\ talk[c].kind \in K
      f == [c \in Talks |-> IF c \in done THEN NoTalk
                            ELSE [talk[c] EXCEPT !.live = @ /\ ~Closed(c), !.before = @ \ done]]
  IN /\ inRoom' = inRoom \ {t} /\ told' = told \ {t}
     /\ shared' = (shared \/ OtherIn(t))
     /\ \/ talk' = f
        \/ /\ t \in inRoom
           /\ \E c \in Free : talk' = [f EXCEPT ![c] = [NewTalk("gone", t, "row") EXCEPT !.before = @ \ done]]

-----------------------------------------------------------------------------
(* The page of the meeting, and the store that outlives it. *)

(* The page is mounted while the store holds a session, or its end. *)
OpenPage(t) ==
  /\ t \notin pages /\ store[t] # "none"
  /\ pages' = pages \cup {t}
  /\ store' = [store EXCEPT ![t] = IF @ = "mini" THEN "full" ELSE @]
  /\ UNCHANGED <<over, present, sock, inRoom, told, talk, upsets, causes>>

(* proceedToRoom, of a host who has looked the meeting up or a guest who   *)
(* was admitted.                                                           *)
Enter(t) ==
  /\ t \notin pages /\ store[t] = "none"
  /\ pages' = pages \cup {t}
  /\ \E c \in Free : talk' = [talk EXCEPT ![c] = NewTalk("enter", t, "find")]
  /\ UNCHANGED <<over, present, store, sock, inRoom, told, upsets, causes>>

(* The user goes to another page of the application. *)
ClosePage(t) ==
  /\ t \in pages
  /\ pages' = pages \ {t}
  /\ store' = [store EXCEPT ![t] = CASE @ = "full" -> "mini" [] @ = "ended" -> "none" [] OTHER -> @]
  /\ UNCHANGED <<over, present, sock, inRoom, told, talk, upsets, causes>>

(* meetings.join, of the REST call and of the gateway: findByCode. *)
FindMeeting(c) ==
  /\ talk[c].pc = "find"
  /\ IF over = "no" THEN TalkGoto(c, "row") /\ UNCHANGED strayed
     ELSE /\ TalkDone(c)
          /\ strayed' = IF talk[c].kind = "join" /\ over # "announced"
                           THEN strayed \cup {talk[c].tab} ELSE strayed
  /\ UNCHANGED <<over, present, pageVars, inRoom, told, upsets, crossed, shared, unsaid, kicked>>

(* The page of c is gone, or its user has taken leave and been answered.   *)
Parted(c) == \/ ~talk[c].live
             \/ \E b \in Busy : talk[b].kind = "bye" /\ talk[b].tab = talk[c].tab
                                                     /\ talk[b].pc = "after"

(* upsertParticipant: here, and here from now on. *)
UpsertParticipant(c) ==
  /\ talk[c].pc = "row" /\ talk[c].kind \in InKinds
  /\ present' = TRUE /\ kicked' = FALSE
  /\ crossed' = (crossed \/ CrossesRow(c))
  /\ unsaid' = (unsaid \/ Parted(c))
  /\ TalkGoto(c, IF talk[c].kind = "enter" THEN "token" ELSE "after")
  /\ UNCHANGED <<over, pageVars, inRoom, told, upsets, strayed, shared>>

(* The token's request looks at the meeting again.  A page that is gone    *)
(* makes none, and one whose request fails, or whose joining was not       *)
(* answered, shows an error: the user is outside, and was marked present.  *)
MintToken(c) ==
  /\ talk[c].pc = "token"
  /\ \/ talk[c].live /\ over = "no" /\ TalkGoto(c, "after") /\ UNCHANGED unsaid
     \/ TalkDone(c) /\ unsaid' = TRUE
  /\ UNCHANGED <<over, present, pageVars, inRoom, told, upsets, strayed, crossed, shared, kicked>>

(* The session, whether the meeting's page is still open or not. *)
StartSession(c) ==
  LET t == talk[c].tab IN
  /\ talk[c].pc = "after" /\ talk[c].kind = "enter"
  /\ IF talk[c].live
       THEN /\ store' = [store EXCEPT ![t] = "full"]
            /\ sock' = [sock EXCEPT ![t] = IF InMeeting(t) THEN @ ELSE "new"]
            /\ UNCHANGED unsaid
       ELSE unsaid' = TRUE /\ UNCHANGED <<store, sock>>
  /\ TalkDone(c)
  /\ UNCHANGED <<over, present, pages, inRoom, told, upsets, strayed, crossed, shared, kicked>>

-----------------------------------------------------------------------------
(* MeetingShell and its socket. *)

(* The socket connects, and MEETING_JOIN goes out. *)
Announce(t) ==
  /\ sock[t] = "new"
  /\ sock' = [sock EXCEPT ![t] = "up"]
  /\ \E c \in Free : talk' = [talk EXCEPT ![c] = NewTalk("join", t, "find")]
  /\ UNCHANGED <<over, present, pages, store, inRoom, told, upsets, causes>>

(* Mutation: the page announces itself before it takes its leave. *)
Reannounce_Swapped(t) ==
  \E c, d \in Free :
    /\ c # d
    /\ talk' = [talk EXCEPT ![c] = [NewTalk("leave", t, "row") EXCEPT !.before = @ \cup {d}],
                            ![d] = NewTalk("join", t, "find")]

(* The effect that listens to the socket is cleaned up and run again:      *)
(* MEETING_LEAVE and MEETING_JOIN, served by two handlers.                 *)
Reannounce(t) ==
  \E c, d \in Free :
    /\ c # d
    /\ talk' = [talk EXCEPT ![c] = NewTalk("leave", t, "row"),
                            ![d] = [NewTalk("join", t, "find") EXCEPT !.before = @ \cup {c}]]

(* The gateway knows where t is, or need not know any longer. *)
Found(t) == strayed' = IF over = "no" THEN strayed \ {t} ELSE strayed

Upset == upsets < MaxUpsets /\ upsets' = upsets + 1

(* Every rendering does that: the effect depends on objects that useSound  *)
(* and useNotification make anew.                                          *)
Render(t) ==
  /\ sock[t] = "up" /\ Upset
  /\ Reannounce(t)
  /\ Found(t)
  /\ UNCHANGED <<over, present, pageVars, inRoom, told, crossed, shared, unsaid, kicked>>

DropConnection(t) ==
  /\ sock[t] = "up" /\ Upset
  /\ sock' = [sock EXCEPT ![t] = "down"]
  /\ strayed' = strayed \cup {t}
  /\ CloseSocket(t, {"join", "leave"}, {})
  /\ UNCHANGED <<over, present, pages, store, crossed, unsaid, kicked>>

(* The client connects again by itself, and does not say where it is       *)
(* unless the page has been rendered meanwhile.                            *)
Reconnect(t) ==
  /\ sock[t] = "down"
  /\ sock' = [sock EXCEPT ![t] = "up"]
  /\ \/ UNCHANGED <<talk, strayed>>
     \/ Reannounce(t) /\ Found(t)
  /\ UNCHANGED <<over, present, pages, store, inRoom, told, upsets, crossed, shared, unsaid, kicked>>

(* onJoin and onLeave, after meetings.join and meetings.leave. *)
JoinRoom(c) ==
  /\ talk[c].pc = "after" /\ talk[c].kind = "join"
  /\ inRoom' = IF talk[c].live THEN inRoom \cup {talk[c].tab} ELSE inRoom
  /\ crossed' = (crossed \/ CrossesRoom(c))
  /\ TalkDone(c)
  /\ UNCHANGED <<over, present, pageVars, told, upsets, strayed, shared, unsaid, kicked>>

LeaveRoom(c) ==
  /\ talk[c].pc = "after" /\ talk[c].kind = "leave"
  /\ inRoom' = IF talk[c].live THEN inRoom \ {talk[c].tab} ELSE inRoom
  /\ crossed' = (crossed \/ CrossesRoom(c))
  /\ TalkDone(c)
  /\ UNCHANGED <<over, present, pageVars, told, upsets, strayed, shared, unsaid, kicked>>

-----------------------------------------------------------------------------
(* Going. *)

(* The room is disconnected: the shell is unmounted, its socket closed.    *)
(* MEETING_LEAVE is emitted after that, and never sent.                    *)
Departs(t, done) ==
  /\ store' = [store EXCEPT ![t] = IF @ = "full" THEN "ended" ELSE "none"]
  /\ sock' = [sock EXCEPT ![t] = "none"]
  /\ Found(t)
  /\ CloseSocket(t, {"join", "leave", "bye"}, done)

(* The user leaves by the controls, of the page or of the small window. *)
TakeLeave(t) ==
  /\ InMeeting(t)
  /\ \E c \in Free : talk' = [talk EXCEPT ![c] = NewTalk("bye", t, "row")]
  /\ shared' = (shared \/ OtherIn(t))
  /\ UNCHANGED <<over, present, pageVars, inRoom, told, upsets, strayed, crossed, unsaid, kicked>>

(* Mutation: the call that the controls make writes nothing. *)
MarkParticipantLeft_Socket(c) ==
  /\ talk[c].pc = "row" /\ talk[c].kind \notin InKinds
  /\ present' = (present /\ talk[c].kind = "bye")
  /\ crossed' = (crossed \/ CrossesRow(c))
  /\ unsaid' = (unsaid /\ talk[c].kind # "bye")
  /\ IF talk[c].kind = "gone" THEN TalkDone(c) ELSE TalkGoto(c, "after")
  /\ UNCHANGED <<over, pageVars, inRoom, told, upsets, strayed, shared, kicked>>

(* meetings.leave, of the REST call, of onLeave and of handleDisconnect. *)
MarkParticipantLeft(c) ==
  /\ talk[c].pc = "row" /\ talk[c].kind \notin InKinds
  /\ present' = FALSE
  /\ crossed' = (crossed \/ CrossesRow(c))
  /\ unsaid' = (unsaid /\ talk[c].kind # "bye")
  /\ IF talk[c].kind = "gone" THEN TalkDone(c) ELSE TalkGoto(c, "after")
  /\ UNCHANGED <<over, pageVars, inRoom, told, upsets, strayed, shared, kicked>>

(* A query of a joining or a leaving fails, or the call to the server.     *)
(* Answered or failed, a page that leaves disconnects the room.  One that  *)
(* announces itself does not listen for the answer: it is in no room, and  *)
(* nobody marks the user present whom another packet may mark as left.     *)
QueryFails(c) ==
  /\ talk[c].pc \in {"find", "row"} /\ Upset
  /\ IF talk[c].kind = "bye"
       THEN TalkGoto(c, "after") /\ unsaid' = TRUE /\ UNCHANGED <<strayed, shared>>
       ELSE /\ TalkDone(c) /\ UNCHANGED unsaid
            /\ IF talk[c].kind = "join"
                 THEN /\ strayed' = strayed \cup {talk[c].tab}
                      /\ shared' = (shared \/ OtherIn(talk[c].tab))
                 ELSE UNCHANGED <<strayed, shared>>
  /\ UNCHANGED <<over, present, pageVars, inRoom, told, crossed, kicked>>

LeaveAnswered(c) ==
  /\ talk[c].pc = "after" /\ talk[c].kind = "bye"
  /\ IF talk[c].live THEN Departs(talk[c].tab, {c})
     ELSE TalkDone(c) /\ UNCHANGED <<store, sock, inRoom, told, strayed, shared>>
  /\ UNCHANGED <<over, present, pages, upsets, crossed, unsaid, kicked>>

(* The media server puts the user out, for the console or not, or the      *)
(* network does.                                                           *)
PutOut(t) ==
  /\ InMeeting(t)
  /\ Upset \/ ((kicked \/ over = "silent") /\ UNCHANGED upsets)
  /\ Departs(t, {})
  /\ unsaid' = TRUE
  /\ UNCHANGED <<over, present, pages, crossed, kicked>>

(* The tab is closed, or loaded again. *)
CloseTab(t) ==
  /\ t \in pages \/ InMeeting(t)
  /\ Upset
  /\ pages' = pages \ {t}
  /\ store' = [store EXCEPT ![t] = "none"] /\ sock' = [sock EXCEPT ![t] = "none"]
  /\ Found(t)
  /\ CloseSocket(t, Kinds, {})
  /\ unsaid' = (unsaid \/ InMeeting(t))
  /\ UNCHANGED <<over, present, crossed, kicked>>

(* The meeting ends: its row is written, then its room told.  One who had  *)
(* found it going on writes over the end that the console has written.     *)
MarkEnded ==
  /\ over \in {"no", "silent"} /\ over' = "marked"
  /\ UNCHANGED <<present, pageVars, inRoom, told, talk, upsets, causes>>

(* forceEnd and bulkEndActive of the console: the row is written, and      *)
(* nobody told.  Then the media room is closed, if that does not fail,     *)
(* which puts its users out; the webhook of it finds the meeting ended.    *)
ForceEnd ==
  /\ over = "no" /\ over' = "silent"
  /\ UNCHANGED <<present, pageVars, inRoom, told, talk, upsets, causes>>

(* kickParticipant of the console: the row is written.  Then the user is   *)
(* put out of the media room, if that does not fail.                       *)
KickParticipant ==
  /\ present /\ present' = FALSE /\ kicked' = TRUE
  /\ Upset
  /\ UNCHANGED <<over, pageVars, inRoom, told, talk, strayed, crossed, shared, unsaid>>

(* Who is still arriving is not told. *)
EmitEnded ==
  /\ over = "marked" /\ over' = "announced"
  /\ told' = inRoom
  /\ strayed' = strayed \cup {t \in Tabs : \/ sock[t] = "new"
                                          \/ \E c \in Busy : talk[c].tab = t /\ talk[c].kind \in InKinds}
  /\ UNCHANGED <<present, pageVars, inRoom, talk, upsets, crossed, shared, unsaid, kicked>>

(* Mutation: the small window does not listen. *)
MeetingEnded_Full(t) ==
  /\ t \in told
  /\ IF store[t] = "full" THEN Departs(t, {})
     ELSE told' = told \ {t} /\ UNCHANGED <<store, sock, inRoom, talk, strayed, shared>>
  /\ unsaid' = TRUE
  /\ UNCHANGED <<over, present, pages, upsets, crossed, kicked>>

(* The page is told, and disconnects the room. *)
MeetingEnded(t) ==
  /\ t \in told
  /\ Departs(t, {})
  /\ unsaid' = TRUE
  /\ UNCHANGED <<over, present, pages, upsets, crossed, kicked>>

TalkStep(c) ==
  \/ FindMeeting(c) \/ UpsertParticipant(c) \/ MintToken(c) \/ StartSession(c)
  \/ JoinRoom(c) \/ LeaveRoom(c)
  \/ MarkParticipantLeft(c) \/ QueryFails(c) \/ LeaveAnswered(c)

TabStep(t) ==
  \/ OpenPage(t) \/ ClosePage(t) \/ Enter(t) \/ TakeLeave(t) \/ PutOut(t) \/ CloseTab(t)
  \/ Announce(t) \/ Render(t) \/ DropConnection(t) \/ Reconnect(t) \/ MeetingEnded(t)

AttendanceNext ==
  \/ \E c \in Talks : TalkStep(c)
  \/ \E t \in Tabs : TabStep(t)
  \/ MarkEnded \/ EmitEnded \/ ForceEnd \/ KickParticipant

AttendanceSpec == AttendanceInit /\ [][AttendanceNext]_attendanceVars
-----------------------------------------------------------------------------
(* Properties. *)

Quiet == Busy = {} /\ told = {} /\ \A t \in Tabs : sock[t] # "new"

(* Once the handlers are done, a page that is in the meeting is in its     *)
(* room and its user is marked as present.  But for one that has connected *)
(* again without a word, or whose joining failed (strayed), for the user's *)
(* other tab of which that holds or that went (shared), for a joining and  *)
(* a leaving that the server served in another order than they were sent   *)
(* (crossed), which every rendering risks, and for a user whom the console *)
(* has marked as left since (kicked).                                      *)
InMeansPresent ==
  Quiet /\ over = "no" /\ ~shared /\ ~crossed =>
    \A t \in Tabs : InMeeting(t) /\ sock[t] = "up" /\ t \notin strayed =>
      t \in inRoom /\ (present \/ kicked)

(* Who has left by the controls is marked so, whatever was under way and   *)
(* in whatever order it was served: but for a tab that went, or was never  *)
(* let in after its joining was recorded, or a call that was still served, *)
(* without a word since (unsaid).                                          *)
OutMeansLeft ==
  Quiet /\ ~unsaid /\ (\A t \in Tabs : ~InMeeting(t)) => ~present

(* When the end of a meeting is announced, no page stays in it that had    *)
(* said it was there and is connected.  A page that was arriving, or was   *)
(* being rendered, stays; and an end by the console is not announced.      *)
EndReachesPages ==
  Quiet /\ over = "announced" /\ ~crossed =>
    \A t \in Tabs : InMeeting(t) => sock[t] = "down" \/ t \in strayed

=============================================================================
