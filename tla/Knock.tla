------------------------------- MODULE Knock -------------------------------
(***************************************************************************)
(* The waiting room of one meeting: the knocks the /meeting gateway parks  *)
(* in its process, the Socket.IO rooms, what a knocking guest and a host   *)
(* see on their pages, and the handlers that run between them.             *)
(*                                                                         *)
(* Grain.  One action is a stretch of a handler between two awaits.  A     *)
(* handler that only waits for the meeting's immutable hostId is merged    *)
(* with that wait.  cancel waits for nothing and is one action.  An event  *)
(* reaches the pages of its room, on every process, when it is emitted.    *)
(* assertMeetingScope refuses a guest of another meeting on arrival, and   *)
(* a knock of the host is refused before it changes anything: both are     *)
(* left out.  So are chat, reactions and raised hands, which are relayed   *)
(* without touching any state of the gateway, and the meeting's own room,  *)
(* with MEETING_LEAVE, which touches no other: Attendance has them.  The   *)
(* gateway notices at once that a socket is closed.                        *)
(***************************************************************************)
EXTENDS FiniteSets

CONSTANTS
  Servers,        \* API processes behind the Redis adapter
  Sockets,        \* connections, each used once
  Pages,          \* a page that loses its connection takes another
  Users, Host,
  UserOf,         \* whose socket it is
  PageOf,         \* the page it connects
  ServerOf,       \* the process it is connected to
  Calls           \* bound: the handlers that run at the same time

ASSUME KnockAssumption ==
  /\ Host \in Users
  /\ UserOf \in [Sockets -> Users] /\ ServerOf \in [Sockets -> Servers]
  /\ PageOf \in [Sockets -> Pages]
  /\ \A s, t \in Sockets : PageOf[s] = PageOf[t] => UserOf[s] = UserOf[t]
  /\ Calls # {} /\ Sockets # {}

VARIABLES
  conn,           \* new, open or closed
  hostRoom,       \* the sockets in host:<code>
  pendingKnocks,  \* per process: the sockets whose knock is parked
  closing,        \* what handleDisconnect still has to do for a socket
  view,           \* the page of a guest: out, waiting, retry, denied, admitted
  list,           \* the page of a host: the users it shows as knocking
  call,           \* the handlers that wait for something
  unheard         \* history: the pages whose last knock or answer was lost

vars == <<conn, hostRoom, pendingKnocks, closing, view, list, call, unheard>>

Views == {"out", "waiting", "retry", "denied", "admitted"}
PCs   == {"idle", "joining", "host_room", "replay", "knocking", "checked", "respond"}

CallRecord == [pc: PCs, sock: Sockets, target: Users, yes: BOOLEAN]

TypeOK ==
  /\ conn \in [Sockets -> {"new", "open", "closed"}]
  /\ hostRoom \subseteq Sockets
  /\ pendingKnocks \in [Servers -> SUBSET Sockets]
  /\ closing \in [Sockets -> {"no", "host", "deny"}]
  /\ view \in [Pages -> Views]
  /\ list \in [Pages -> SUBSET Users]
  /\ call \in [Calls -> CallRecord]
  /\ unheard \subseteq Pages

OfUser(u) == {s \in Sockets : UserOf[s] = u}
IsHost(s) == UserOf[s] = Host

(* A finished handler leaves nothing behind. *)
Idle == [pc |-> "idle", sock |-> CHOOSE s \in Sockets : TRUE, target |-> Host, yes |-> FALSE]

Init ==
  /\ conn = [s \in Sockets |-> "new"]
  /\ hostRoom = {}
  /\ pendingKnocks = [v \in Servers |-> {}]
  /\ closing = [s \in Sockets |-> "no"]
  /\ view = [p \in Pages |-> "out"]
  /\ list = [p \in Pages |-> {}]
  /\ call = [c \in Calls |-> Idle]
  /\ unheard = {}

-----------------------------------------------------------------------------
(* Events. *)

(* KNOCK_RESOLVED to the sockets of R; a page that gave up or that was     *)
(* admitted does not listen any more.                                      *)
Resolve(R, answer) ==
  view' = [p \in Pages |->
             IF /\ \E s \in R : PageOf[s] = p /\ conn[s] = "open"
                /\ view[p] \notin {"out", "admitted"}
               THEN answer ELSE view[p]]

(* KNOCK_REQUESTED and KNOCK_CANCELLED to the host room. *)
HostPages    == {PageOf[h] : h \in hostRoom}
ShowKnock(u) == list' = [p \in Pages |-> IF p \in HostPages THEN list[p] \cup {u} ELSE list[p]]
HideKnock(u) == list' = [p \in Pages |-> IF p \in HostPages THEN list[p] \ {u} ELSE list[p]]

(* removeKnock: the map holds at most one knock of a user. *)
RemoveKnock(v, u) == pendingKnocks' = [pendingKnocks EXCEPT ![v] = @ \ OfUser(u)]

-----------------------------------------------------------------------------
(* Handlers. *)

Begin(c, s, pc, u, yes) ==
  /\ call[c].pc = "idle" /\ conn[s] = "open"
  /\ call' = [call EXCEPT ![c] = [pc |-> pc, sock |-> s, target |-> u, yes |-> yes]]

Step(c, pc) == call' = [call EXCEPT ![c].pc = pc]
Finish(c)   == call' = [call EXCEPT ![c] = Idle]

(* A page connects, or connects again by itself: it shows what it showed,  *)
(* and sends nothing anew, for waiting-room.tsx knocks on its socket's     *)
(* first connection only.                                                  *)
Connect(s) ==
  /\ conn[s] = "new" /\ \A t \in Sockets : PageOf[t] = PageOf[s] => conn[t] # "open"
  /\ conn' = [conn EXCEPT ![s] = "open"]
  /\ UNCHANGED <<hostRoom, pendingKnocks, closing, view, list, call, unheard>>

(* The join of anybody else does nothing here. *)
Join(c, s) ==
  /\ IsHost(s)
  /\ Begin(c, s, "joining", Host, FALSE)
  /\ UNCHANGED <<conn, hostRoom, pendingKnocks, closing, view, list, unheard>>

(* meetings.join refused, or accepted. *)
Joined(c) ==
  /\ call[c].pc = "joining"
  /\ Finish(c) \/ Step(c, "host_room")
  /\ UNCHANGED <<conn, hostRoom, pendingKnocks, closing, view, list, unheard>>

(* A closed socket joins no room. *)
HostJoined(c) ==
  LET s == call[c].sock IN
  /\ call[c].pc = "host_room"
  /\ hostRoom' = IF conn[s] = "open" THEN hostRoom \cup {s} ELSE hostRoom
  /\ Step(c, "replay")
  /\ UNCHANGED <<conn, pendingKnocks, closing, view, list, unheard>>

(* Mutation: the parked knocks are not replayed to a host who joins. *)
Replay_None(c) ==
  /\ call[c].pc = "replay"
  /\ Finish(c)
  /\ UNCHANGED <<conn, hostRoom, pendingKnocks, closing, view, list, unheard>>

Replay(c) ==
  LET s == call[c].sock IN
  /\ call[c].pc = "replay"
  /\ IF conn[s] = "open"
       THEN /\ list' = [list EXCEPT ![PageOf[s]] =
                          @ \cup {UserOf[t] : t \in pendingKnocks[ServerOf[s]]}]
            /\ unheard' = unheard \ {PageOf[s]}
       ELSE UNCHANGED <<list, unheard>>
  /\ Finish(c)
  /\ UNCHANGED <<conn, hostRoom, pendingKnocks, closing, view>>

(* A handler of onKnock is at work for the page. *)
Knocking(p) ==
  \E c \in Calls : PageOf[call[c].sock] = p /\ call[c].pc \in {"knocking", "checked"}

(* The first knock, and those of the retry timer. *)
Knock(c, s) ==
  LET p == PageOf[s] IN
  /\ ~IsHost(s) /\ view[p] \in {"out", "retry"}
  /\ Begin(c, s, "knocking", Host, FALSE)
  /\ view' = [view EXCEPT ![p] = "waiting"]
  /\ unheard' = IF Knocking(p) THEN unheard ELSE unheard \ {p}
  /\ UNCHANGED <<conn, hostRoom, pendingKnocks, closing, list>>

(* hasHostPresent counts the sockets of the host room on every process. *)
HasHostPresent(c) ==
  /\ call[c].pc = "knocking"
  /\ call' = [call EXCEPT ![c].pc = "checked", ![c].yes = (hostRoom # {})]
  /\ UNCHANGED <<conn, hostRoom, pendingKnocks, closing, view, list, unheard>>

(* Mutation: the guest is not told that no host is there. *)
NoHost_Silent(c) ==
  /\ call[c].pc = "checked" /\ ~call[c].yes
  /\ Finish(c)
  /\ UNCHANGED <<conn, hostRoom, pendingKnocks, closing, view, list, unheard>>

NoHost(c) ==
  /\ call[c].pc = "checked" /\ ~call[c].yes
  /\ Resolve({call[c].sock}, "retry")
  /\ Finish(c)
  /\ UNCHANGED <<conn, hostRoom, pendingKnocks, closing, list, unheard>>

(* Mutation: the knock is parked under the user instead of the socket. *)
ParkKnock_User(c) ==
  LET s == call[c].sock
      v == ServerOf[s] IN
  /\ call[c].pc = "checked" /\ call[c].yes
  /\ pendingKnocks' = [pendingKnocks EXCEPT ![v] = (@ \ OfUser(UserOf[s])) \cup {UserOf[s]}]
  /\ ShowKnock(UserOf[s])
  /\ Finish(c)
  /\ UNCHANGED <<conn, hostRoom, closing, view, unheard>>

(* The knock replaces any other of its user on this process. *)
ParkKnock(c) ==
  LET s == call[c].sock
      v == ServerOf[s] IN
  /\ call[c].pc = "checked" /\ call[c].yes
  /\ pendingKnocks' = [pendingKnocks EXCEPT ![v] = (@ \ OfUser(UserOf[s])) \cup {s}]
  /\ ShowKnock(UserOf[s])
  /\ Finish(c)
  /\ UNCHANGED <<conn, hostRoom, closing, view, unheard>>

(* The page of a guest who was not admitted is left. *)
KnockCancel(s) ==
  LET v == ServerOf[s]
      u == UserOf[s] IN
  /\ conn[s] = "open" /\ view[PageOf[s]] \in {"waiting", "retry", "denied"}
  /\ view' = [view EXCEPT ![PageOf[s]] = "out"]
  /\ RemoveKnock(v, u)
  /\ IF pendingKnocks[v] \cap OfUser(u) # {} THEN HideKnock(u) ELSE UNCHANGED list
  /\ UNCHANGED <<conn, hostRoom, closing, call, unheard>>

(* Somebody answers a knock; the page that sends the answer forgets it. *)
Respond(c, s, u, yes) ==
  /\ Begin(c, s, "respond", u, yes)
  /\ list' = [list EXCEPT ![PageOf[s]] = @ \ {u}]
  /\ UNCHANGED <<conn, hostRoom, pendingKnocks, closing, view, unheard>>

(* Mutation: whoever answers is not checked to be the host. *)
Responded_Anybody(c) ==
  LET v == ServerOf[call[c].sock]
      u == call[c].target
      R == pendingKnocks[v] \cap OfUser(u) IN
  /\ call[c].pc = "respond"
  /\ RemoveKnock(v, u)
  /\ Resolve(R, IF call[c].yes THEN "admitted" ELSE "denied")
  /\ IF R # {} THEN HideKnock(u) ELSE UNCHANGED list
  /\ Finish(c)
  /\ UNCHANGED <<conn, hostRoom, closing, unheard>>

(* onKnockRespond looks the knock up in the map of its own process. *)
Responded(c) ==
  LET v == ServerOf[call[c].sock]
      u == call[c].target
      R == pendingKnocks[v] \cap OfUser(u) IN
  /\ call[c].pc = "respond"
  /\ \/ /\ ~IsHost(call[c].sock)
        /\ UNCHANGED <<pendingKnocks, view, list>>
     \/ /\ IsHost(call[c].sock)
        /\ RemoveKnock(v, u)
        /\ Resolve(R, IF call[c].yes THEN "admitted" ELSE "denied")
        /\ IF R # {} THEN HideKnock(u) ELSE UNCHANGED list
  /\ Finish(c)
  /\ UNCHANGED <<conn, hostRoom, closing, unheard>>

(* findRawByCode or fetchSockets rejects: onKnock parks nothing and        *)
(* onKnockRespond answers nobody, and the page takes no notice.            *)
Fails(c) ==
  LET s == call[c].sock
      p == PageOf[s] IN
  /\ call[c].pc \in {"knocking", "respond"}
  /\ unheard' = IF view[p] = "waiting" \/ IsHost(s) THEN unheard \cup {p} ELSE unheard
  /\ Finish(c)
  /\ UNCHANGED <<conn, hostRoom, pendingKnocks, closing, view, list>>

-----------------------------------------------------------------------------
(* handleDisconnect.  The socket is out of its rooms when it runs. *)

(* The page stays as it is.  Its knock is gone, or nobody's: waiting, it   *)
(* will wait in vain.                                                      *)
Disconnect(s) ==
  LET v == ServerOf[s]
      p == PageOf[s] IN
  /\ conn[s] = "open"
  /\ conn' = [conn EXCEPT ![s] = "closed"]
  /\ hostRoom' = hostRoom \ {s}
  /\ pendingKnocks' = [pendingKnocks EXCEPT ![v] = @ \ {s}]
  /\ list' = [q \in Pages |->
                IF s \in pendingKnocks[v] /\ q \in HostPages THEN list[q] \ {UserOf[s]}
                ELSE list[q]]
  /\ closing' = [closing EXCEPT ![s] = IF s \in hostRoom THEN "host" ELSE "no"]
  /\ unheard' = IF view[p] = "waiting" \/ Knocking(p) THEN unheard \cup {p} ELSE unheard
  /\ UNCHANGED <<view, call>>

(* fetchSockets finds the host room empty or not.  Or the handler does not *)
(* come to it: client.rooms may be cleared already, which is up to the     *)
(* library, and meetings.leave or fetchSockets may reject.                 *)
CloseHost(s) ==
  /\ closing[s] = "host"
  /\ \E next \in {IF hostRoom = {} THEN "deny" ELSE "no", "no"} :
       closing' = [closing EXCEPT ![s] = next]
  /\ UNCHANGED <<conn, hostRoom, pendingKnocks, view, list, call, unheard>>

(* Mutation: the knocks are dropped and nobody is told. *)
DenyAllPending_Silent(s) ==
  /\ closing[s] = "deny"
  /\ closing' = [closing EXCEPT ![s] = "no"]
  /\ pendingKnocks' = [pendingKnocks EXCEPT ![ServerOf[s]] = {}]
  /\ UNCHANGED <<conn, hostRoom, view, list, call, unheard>>

DenyAllPending(s) ==
  /\ closing[s] = "deny"
  /\ closing' = [closing EXCEPT ![s] = "no"]
  /\ Resolve(pendingKnocks[ServerOf[s]], "retry")
  /\ pendingKnocks' = [pendingKnocks EXCEPT ![ServerOf[s]] = {}]
  /\ UNCHANGED <<conn, hostRoom, list, call, unheard>>

-----------------------------------------------------------------------------

HandlerStep(c) ==
  \/ Joined(c) \/ HostJoined(c) \/ Replay(c)
  \/ HasHostPresent(c) \/ NoHost(c) \/ ParkKnock(c) \/ Responded(c) \/ Fails(c)

CloseStep(s) == CloseHost(s) \/ DenyAllPending(s)

Arrival(c, s) ==
  \/ Join(c, s) \/ Knock(c, s)
  \/ \E u \in Users \ {Host}, yes \in BOOLEAN : Respond(c, s, u, yes)

Next ==
  \/ \E c \in Calls : HandlerStep(c)
  \/ \E s \in Sockets : CloseStep(s)
  \/ \E s \in Sockets : Connect(s) \/ KnockCancel(s) \/ Disconnect(s)
  \/ \E c \in Calls, s \in Sockets : Arrival(c, s)

Spec == Init /\ [][Next]_vars

(* A handler runs on, and a host who keeps seeing a knock answers it. *)
Answer(h, u) ==
  u \in list[PageOf[h]] /\ \E c \in Calls, yes \in BOOLEAN : Respond(c, h, u, yes)

Fairness ==
  /\ \A c \in Calls : WF_vars(HandlerStep(c))
  /\ \A s \in Sockets : WF_vars(CloseStep(s))
  /\ \A h \in OfUser(Host), u \in Users \ {Host} : SF_vars(Answer(h, u))

FairSpec == Spec /\ Fairness
-----------------------------------------------------------------------------
(* Properties. *)

(* The user has no other page on the meeting. *)
OnlyTab(p) == \A s, t \in Sockets : PageOf[s] = p /\ UserOf[t] = UserOf[s] => PageOf[t] = p

(* No guest is left waiting for nothing: as long as the page waits and no  *)
(* knock of it is being processed, the knock is parked, through answers,   *)
(* cancels, second knocks and hosts who come and go.  But for a page whose *)
(* knock was lost, with its connection or with a query that failed.        *)
WaitingIsParked ==
  \A s \in Sockets :
    LET p == PageOf[s] IN
    conn[s] = "open" /\ view[p] = "waiting" /\ OnlyTab(p) /\ ~Knocking(p) /\ p \notin unheard
      => s \in pendingKnocks[ServerOf[s]]

(* Every host page that has joined shows every parked knock, or is just    *)
(* answering it: a knock nobody is shown could not be answered.  But for a *)
(* page that has taken a knock off its list for an answer that failed.     *)
HostSeesKnocks ==
  \A h \in hostRoom, v \in Servers : \A s \in pendingKnocks[v] :
    \/ UserOf[s] \in list[PageOf[h]]
    \/ \E c \in Calls : call[c].sock = h /\ call[c].pc = "replay"
    \/ \E c \in Calls : /\ call[c].sock = h /\ call[c].pc = "respond"
                        /\ call[c].target = UserOf[s]
    \/ PageOf[h] \in unheard

(* A page shows "admitted" only when the host let in this very user while  *)
(* a knock of this page was parked, by the connection it has now.          *)
AdmittedByHost ==
  [][\A p \in Pages :
       view[p] # "admitted" /\ view'[p] = "admitted" =>
         \E s \in Sockets :
           /\ PageOf[s] = p /\ conn[s] = "open"
           /\ s \in pendingKnocks[ServerOf[s]] \ pendingKnocks'[ServerOf[s]]
           /\ \E c \in Calls : /\ call[c].pc = "respond" /\ call[c].yes
                               /\ call[c].target = UserOf[s] /\ IsHost(call[c].sock)
                               /\ call'[c].pc = "idle"]_vars

(* Once an answer of the host has been processed, no knock of that user is *)
(* parked any more, on any process: the answer reached whoever waited.     *)
AnswerSettles ==
  [][\A c \in Calls :
       /\ call[c].pc = "respond" /\ IsHost(call[c].sock) /\ call'[c].pc = "idle"
       /\ UNCHANGED unheard
       => \A v \in Servers : pendingKnocks'[v] \cap OfUser(call[c].target) = {}]_vars

(* Under FairSpec a guest who waits while a host is there gets an answer,  *)
(* unless the guest or the last host goes, or the knock or an answer of    *)
(* the host is lost.                                                       *)
KnockAnswered ==
  \A p \in Pages \ {PageOf[h] : h \in OfUser(Host)} :
    (view[p] = "waiting" /\ hostRoom # {} /\ OnlyTab(p))
      ~> (view[p] # "waiting" \/ hostRoom = {} \/ unheard \cap ({p} \cup HostPages) # {})
=============================================================================
