------------------------------ MODULE Presence ------------------------------
(***************************************************************************)
(* The chat sockets of one user: the rooms each of them is in, the counter *)
(* in Redis that says whether the user is online, and a conversation that  *)
(* somebody else starts with the user meanwhile.                           *)
(*                                                                         *)
(* Grain.  One action is one access to Redis, the database or the rooms.   *)
(* A connection and a disconnection are two handlers that may overlap.     *)
(* Left out: the chosen status, the time of the last visit, and what is    *)
(* told to the rooms: each broadcast first takes a snapshot, as any page   *)
(* that lists conversations does, so that its snapshot is one of Looks.    *)
(***************************************************************************)
EXTENDS Integers, FiniteSets

CONSTANTS
  Sockets,        \* bound: the connections the user ever makes
  Looks           \* bound: the snapshots and logouts that run at the same time

ASSUME PresenceAssumption == IsFiniteSet(Sockets)

VARIABLES
  con,            \* per socket: where handleConnection is
  dis,            \* per socket: where handleDisconnect is, and what it has read
  live,           \* the sockets that are connected
  inUser, inConv, \* the sockets in user:<id> and in conversation:<id>
  count,          \* chat:presence:online of the user, 0 without a field
  conv,           \* the conversation: not made, made, announced to its members
  letter,         \* per socket: CONVERSATION_NEW or CONVERSATION_JOIN on its way,
                  \* or a CONVERSATION_JOIN that failed
  look,           \* the snapshots and logouts in flight
  astray          \* history: a count was lost as described at CountedWhileConnected

presenceVars == <<con, dis, live, inUser, inConv, count, conv, letter, look, astray>>
roomVars     == <<inUser, inConv, conv, letter>>

ConPCs == {"off", "user", "list", "conv", "count", "up", "failed"}
LookPCs == {"idle", "check", "logout", "erase"}

PresenceTypeOK ==
  /\ con \in [Sockets -> ConPCs]
  /\ dis \in [Sockets -> [pc: {"none", "decrement", "erase", "over"},
                          read: -Cardinality(Sockets)..Cardinality(Sockets)]]
  /\ live \subseteq Sockets /\ inUser \subseteq live /\ inConv \subseteq live
  /\ count \in -Cardinality(Sockets)..Cardinality(Sockets)
  /\ conv \in {"none", "made", "announced"}
  /\ letter \in [Sockets -> {"none", "new", "join", "lost"}]
  /\ look \in [Looks -> [pc: LookPCs, found: SUBSET Sockets]]
  /\ astray \in BOOLEAN

NoLook == [pc |-> "idle", found |-> {}]

PresenceInit ==
  /\ con = [s \in Sockets |-> "off"]
  /\ dis = [s \in Sockets |-> [pc |-> "none", read |-> 0]]
  /\ live = {} /\ inUser = {} /\ inConv = {}
  /\ count = 0 /\ conv = "none"
  /\ letter = [s \in Sockets |-> "none"]
  /\ look = [l \in Looks |-> NoLook]
  /\ astray = FALSE

-----------------------------------------------------------------------------
(* A socket connects. *)

ConGoto(s, pc) == con' = [con EXCEPT ![s] = pc]
Join(room, s)  == IF s \in live THEN room \cup {s} ELSE room

(* The token is verified, and data.user set. *)
OpenSocket(s) ==
  /\ con[s] = "off"
  /\ live' = live \cup {s}
  /\ ConGoto(s, "user")
  /\ UNCHANGED <<dis, count, look, astray, roomVars>>

(* Mutation: a user is taken to have one socket. *)
JoinUser_Single(s) ==
  /\ con[s] = "user"
  /\ inUser' = IF inUser = {} THEN Join(inUser, s) ELSE inUser
  /\ ConGoto(s, "list")
  /\ UNCHANGED <<dis, live, inConv, count, conv, letter, look, astray>>

(* A socket that is gone by now is in no room. *)
JoinUser(s) ==
  /\ con[s] = "user"
  /\ inUser' = Join(inUser, s)
  /\ ConGoto(s, "list")
  /\ UNCHANGED <<dis, live, inConv, count, conv, letter, look, astray>>

(* conversationIdsForUser. *)
ListConversations(s) ==
  /\ con[s] = "list"
  /\ ConGoto(s, IF conv = "none" THEN "count" ELSE "conv")
  /\ UNCHANGED <<dis, live, count, look, astray, roomVars>>

JoinListed(s) ==
  /\ con[s] = "conv"
  /\ inConv' = Join(inConv, s)
  /\ ConGoto(s, "count")
  /\ UNCHANGED <<dis, live, inUser, count, conv, letter, look, astray>>

PresenceConnect(s) ==
  /\ con[s] = "count"
  /\ count' = count + 1
  /\ ConGoto(s, "up")
  /\ UNCHANGED <<dis, live, look, astray, roomVars>>

-----------------------------------------------------------------------------
(* A socket goes. *)

(* What socket.io does for the sockets S: out of every room, and what was  *)
(* on its way is lost.                                                     *)
Leave(S) ==
  /\ live' = live \ S /\ inUser' = inUser \ S /\ inConv' = inConv \ S
  /\ letter' = [s \in Sockets |-> IF s \in S THEN "none" ELSE letter[s]]

Disconnecting(S) ==
  dis' = [s \in Sockets |-> IF s \in S THEN [pc |-> "decrement", read |-> 0] ELSE dis[s]]

CloseSocket(s) ==
  /\ s \in live
  /\ Leave({s}) /\ Disconnecting({s})
  /\ UNCHANGED <<con, count, conv, look, astray>>

(* An access of handleConnection throws: the server closes the socket. *)
ConnectFails(s) ==
  /\ con[s] \in {"user", "list", "conv", "count"}
  /\ ConGoto(s, "failed")
  /\ Leave({s}) /\ Disconnecting({s} \cap live)
  /\ UNCHANGED <<count, conv, look, astray>>

(* Mutation: the field goes with any of the sockets. *)
PresenceDisconnect_Any(s) ==
  /\ dis[s].pc = "decrement"
  /\ count' = count - 1
  /\ dis' = [dis EXCEPT ![s] = [pc |-> "erase", read |-> count - 1]]
  /\ astray' = (astray \/ con[s] # "up")
  /\ UNCHANGED <<con, live, look, roomVars>>

(* The decrement does not ask whether this socket was counted. *)
PresenceDisconnect(s) ==
  /\ dis[s].pc = "decrement"
  /\ count' = count - 1
  /\ dis' = [dis EXCEPT ![s] = IF count <= 1 THEN [pc |-> "erase", read |-> count - 1]
                               ELSE [pc |-> "over", read |-> 0]]
  /\ astray' = (astray \/ con[s] # "up")
  /\ UNCHANGED <<con, live, look, roomVars>>

(* The field is deleted by a call of its own. *)
EraseCount(s) ==
  /\ dis[s].pc = "erase"
  /\ count' = 0
  /\ dis' = [dis EXCEPT ![s] = [pc |-> "over", read |-> 0]]
  /\ astray' = (astray \/ count > dis[s].read)
  /\ UNCHANGED <<con, live, look, roomVars>>

(* A process stops with some of the sockets: no handler runs for them. *)
ProcessStops(S) ==
  /\ S # {} /\ S \subseteq {s \in Sockets : con[s] # "off"}
  /\ con' = [s \in Sockets |-> IF s \in S THEN "failed" ELSE con[s]]
  /\ dis' = [s \in Sockets |-> IF s \in S THEN [pc |-> "over", read |-> 0] ELSE dis[s]]
  /\ Leave(S)
  /\ UNCHANGED <<count, conv, look, astray>>

-----------------------------------------------------------------------------
(* Snapshots and logouts. *)

(* areOnline: no count, and the user is offline. *)
ReadCount(l) ==
  /\ look[l].pc = "idle" /\ count > 0
  /\ look' = [look EXCEPT ![l].pc = "check"]
  /\ UNCHANGED <<con, dis, live, count, astray, roomVars>>

(* A count without a socket is taken back. *)
FetchSockets(l) ==
  /\ look[l].pc = "check"
  /\ look' = [look EXCEPT ![l] = IF inUser = {} THEN [pc |-> "erase", found |-> {}] ELSE NoLook]
  /\ UNCHANGED <<con, dis, live, count, astray, roomVars>>

(* logout: the sockets are found, and then disconnected; without any the   *)
(* count goes.                                                             *)
LogoutFinds(l) ==
  /\ look[l].pc = "idle"
  /\ look' = [look EXCEPT ![l] = [pc |-> IF inUser = {} THEN "erase" ELSE "logout",
                                  found |-> inUser]]
  /\ UNCHANGED <<con, dis, live, count, astray, roomVars>>

LogoutCloses(l) ==
  LET S == look[l].found \cap live IN
  /\ look[l].pc = "logout"
  /\ Leave(S) /\ Disconnecting(S)
  /\ look' = [look EXCEPT ![l] = NoLook]
  /\ UNCHANGED <<con, count, conv, astray>>

ForceOffline(l) ==
  /\ look[l].pc = "erase"
  /\ count' = 0
  /\ astray' = (astray \/ inUser # {} \/ \E s \in Sockets : dis[s].pc = "decrement")
  /\ look' = [look EXCEPT ![l] = NoLook]
  /\ UNCHANGED <<con, dis, live, roomVars>>

-----------------------------------------------------------------------------
(* A conversation begins: the rows first, CONVERSATION_NEW to the room of  *)
(* each member after that; the page answers with CONVERSATION_JOIN.        *)

MakeConversation ==
  /\ conv = "none" /\ conv' = "made"
  /\ UNCHANGED <<con, dis, live, inUser, inConv, count, letter, look, astray>>

AnnounceConversation ==
  /\ conv = "made" /\ conv' = "announced"
  /\ letter' = [s \in Sockets |-> IF s \in inUser THEN "new" ELSE letter[s]]
  /\ UNCHANGED <<con, dis, live, inUser, inConv, count, look, astray>>

OnConversationNew(s) ==
  /\ letter[s] = "new" /\ letter' = [letter EXCEPT ![s] = "join"]
  /\ UNCHANGED <<con, dis, live, inUser, inConv, count, conv, look, astray>>

(* The query of assertConversationMember may throw.  The page waits for no *)
(* answer and does not ask again.                                          *)
OnJoin(s) ==
  /\ letter[s] = "join"
  /\ \/ inConv' = Join(inConv, s) /\ letter' = [letter EXCEPT ![s] = "none"]
     \/ letter' = [letter EXCEPT ![s] = "lost"] /\ UNCHANGED inConv
  /\ UNCHANGED <<con, dis, live, inUser, count, conv, look, astray>>

ConnectStep(s) == \/ OpenSocket(s) \/ JoinUser(s) \/ ListConversations(s) \/ JoinListed(s)
                  \/ PresenceConnect(s) \/ ConnectFails(s)

DisconnectStep(s) == CloseSocket(s) \/ PresenceDisconnect(s) \/ EraseCount(s)

LookStep(l) == \/ ReadCount(l) \/ FetchSockets(l) \/ ForceOffline(l)
               \/ LogoutFinds(l) \/ LogoutCloses(l)

PresenceNext ==
  \/ \E s \in Sockets : \/ ConnectStep(s) \/ DisconnectStep(s)
                        \/ OnConversationNew(s) \/ OnJoin(s)
  \/ \E S \in SUBSET Sockets : ProcessStops(S)
  \/ \E l \in Looks : LookStep(l)
  \/ MakeConversation \/ AnnounceConversation

PresenceSpec == PresenceInit /\ [][PresenceNext]_presenceVars
-----------------------------------------------------------------------------
(* Properties. *)

(* However a conversation that begins is interleaved with a page that      *)
(* connects, the page is not left out: once its connection has joined what *)
(* it listed, its socket is in the conversation's room or is on its way    *)
(* there.  But for one whose CONVERSATION_JOIN failed.                     *)
RoomsJoined ==
  conv = "announced" =>
    \A s \in live : con[s] \in {"count", "up"} =>
      s \in inConv \/ letter[s] \in {"new", "join"} \/ letter[s] = "lost"

(* A user with a counted socket is counted, over any number of tabs that   *)
(* come and go, snapshots, logouts and processes that stop, but for the    *)
(* three ways the code loses a count: a disconnection whose connection was *)
(* not counted, a field deleted after another connection incremented it,   *)
(* and a count taken back while a socket was joining or another one had    *)
(* yet to take its own back.                                               *)
CountedWhileConnected ==
  ~astray => \A s \in live : con[s] = "up" => count > 0
=============================================================================
