--------------------------- MODULE MessagingProofs ---------------------------
(***************************************************************************)
(* Proofs about the chat sockets of a user, the ballots of a poll, one     *)
(* member's view of a conversation and a series of meetings, for every     *)
(* number of sockets, voters and handlers, and about the five components   *)
(* next to each other.  Each part has an inductive invariant of its own.   *)
(***************************************************************************)
EXTENDS MCMessaging, FiniteSetTheorems, WellFoundedInduction, ThreadProofs

-----------------------------------------------------------------------------
(* The rooms of Presence. *)

Arrived == {"list", "conv", "count", "up"}

(* Who has come past the user's room is in it, so that the announcement of *)
(* a conversation reaches who had listed the conversations before it.      *)
RoomsInv ==
  /\ con \in [Sockets -> ConPCs] /\ letter \in [Sockets -> {"none", "new", "join", "lost"}]
  /\ live \subseteq Sockets
  /\ conv \in {"none", "made", "announced"}
  /\ \A s \in live : con[s] \in Arrived => s \in inUser
  /\ RoomsJoined

LEMMA ConNames ==
  /\ "off" \in ConPCs /\ "user" \in ConPCs /\ "list" \in ConPCs /\ "conv" \in ConPCs
  /\ "count" \in ConPCs /\ "up" \in ConPCs /\ "failed" \in ConPCs
BY DEF ConPCs

LEMMA RoomsStart == PresenceInit => RoomsInv
BY ConNames DEF PresenceInit, RoomsInv, RoomsJoined

(* Sockets go. *)
LEMMA LeaveKeeps ==
  ASSUME RoomsInv, NEW S, Leave(S), con' \in [Sockets -> ConPCs],
         \A s \in Sockets \ S : con'[s] = con[s], conv' = conv
  PROVE  RoomsInv'
<1>1. letter' \in [Sockets -> {"none", "new", "join", "lost"}] BY DEF RoomsInv, Leave
<1>2. live' \subseteq Sockets BY DEF RoomsInv, Leave
<1>3. \A s \in live' : s \in live /\ s \notin S /\ con'[s] = con[s] /\ letter'[s] = letter[s]
  BY DEF RoomsInv, Leave
<1>4. \A s \in live' : (s \in inUser => s \in inUser') /\ (s \in inConv => s \in inConv')
  BY <1>3 DEF Leave
<1>5. \A s \in live' : con'[s] \in Arrived => s \in inUser' BY <1>3, <1>4 DEF RoomsInv
<1>6. RoomsJoined' BY <1>3, <1>4 DEF RoomsInv, RoomsJoined
<1>7. QED BY <1>1, <1>2, <1>5, <1>6 DEF RoomsInv

LEMMA RoomsConnect ==
  ASSUME RoomsInv, NEW s \in Sockets, ConnectStep(s)
  PROVE  RoomsInv'
<1>1. CASE OpenSocket(s)
  BY <1>1, ConNames DEF OpenSocket, ConGoto, roomVars, RoomsInv, RoomsJoined, Arrived
<1>2. CASE JoinUser(s)
  BY <1>2, ConNames DEF JoinUser, ConGoto, Join, RoomsInv, RoomsJoined, Arrived
<1>3. CASE ListConversations(s)
  <2>1. con' = [con EXCEPT ![s] = IF conv = "none" THEN "count" ELSE "conv"]
        /\ UNCHANGED <<live, inUser, inConv, conv, letter>>
    BY <1>3 DEF ListConversations, ConGoto, roomVars
  <2>2. con[s] \in Arrived BY <1>3 DEF ListConversations, Arrived
  <2>3. con' \in [Sockets -> ConPCs] BY <2>1, ConNames DEF RoomsInv
  <2>4. \A t \in live : con'[t] \in Arrived => t \in inUser BY <2>1, <2>2 DEF RoomsInv
  <2>5. RoomsJoined' BY <2>1 DEF RoomsInv, RoomsJoined
  <2>6. QED BY <2>1, <2>3, <2>4, <2>5 DEF RoomsInv
<1>4. CASE JoinListed(s)
  BY <1>4, ConNames DEF JoinListed, ConGoto, Join, RoomsInv, RoomsJoined, Arrived
<1>5. CASE PresenceConnect(s)
  BY <1>5, ConNames DEF PresenceConnect, ConGoto, roomVars, RoomsInv, RoomsJoined, Arrived
<1>6. CASE ConnectFails(s)
  <2>1. con' \in [Sockets -> ConPCs] /\ \A t \in Sockets \ {s} : con'[t] = con[t]
    BY <1>6, ConNames DEF ConnectFails, ConGoto, RoomsInv
  <2>2. Leave({s}) /\ conv' = conv BY <1>6 DEF ConnectFails
  <2>3. QED BY <2>1, <2>2, LeaveKeeps
<1>7. QED BY <1>1, <1>2, <1>3, <1>4, <1>5, <1>6 DEF ConnectStep

LEMMA RoomsStep == RoomsInv /\ [PresenceNext]_presenceVars => RoomsInv'
<1> SUFFICES ASSUME RoomsInv, [PresenceNext]_presenceVars PROVE RoomsInv'
  OBVIOUS
<1>1. ASSUME UNCHANGED <<con, live, inUser, inConv, conv, letter>> PROVE RoomsInv'
  BY <1>1 DEF RoomsInv, RoomsJoined
<1>2. CASE UNCHANGED presenceVars BY <1>1, <1>2 DEF presenceVars
<1>3. ASSUME NEW s \in Sockets, ConnectStep(s) PROVE RoomsInv' BY <1>3, RoomsConnect
<1>4. ASSUME NEW s \in Sockets, DisconnectStep(s) PROVE RoomsInv'
  <2>1. CASE CloseSocket(s)
    <3>1. Leave({s}) /\ UNCHANGED <<con, conv>> BY <2>1 DEF CloseSocket
    <3>2. con' \in [Sockets -> ConPCs] BY <3>1 DEF RoomsInv
    <3>3. QED BY <3>1, <3>2, LeaveKeeps
  <2>2. CASE PresenceDisconnect(s) BY <1>1, <2>2 DEF PresenceDisconnect, roomVars
  <2>3. CASE EraseCount(s) BY <1>1, <2>3 DEF EraseCount, roomVars
  <2>4. QED BY <1>4, <2>1, <2>2, <2>3 DEF DisconnectStep
<1>5. ASSUME NEW s \in Sockets, OnConversationNew(s) \/ OnJoin(s) PROVE RoomsInv'
  BY <1>5 DEF OnConversationNew, OnJoin, Join, RoomsInv, RoomsJoined
<1>6. ASSUME NEW S \in SUBSET Sockets, ProcessStops(S) PROVE RoomsInv'
  <2>1. con' \in [Sockets -> ConPCs] /\ \A t \in Sockets \ S : con'[t] = con[t]
    BY <1>6, ConNames DEF ProcessStops, RoomsInv
  <2>2. Leave(S) /\ conv' = conv BY <1>6 DEF ProcessStops
  <2>3. QED BY <2>1, <2>2, LeaveKeeps
<1>7. ASSUME NEW l \in Looks, LookStep(l) PROVE RoomsInv'
  <2>1. CASE LogoutCloses(l)
    <3>1. PICK S : Leave(S) /\ UNCHANGED <<con, conv>> BY <2>1 DEF LogoutCloses
    <3>2. con' \in [Sockets -> ConPCs] BY <3>1 DEF RoomsInv
    <3>3. QED BY <3>1, <3>2, LeaveKeeps
  <2>2. CASE ~LogoutCloses(l)
    BY <1>1, <1>7, <2>2 DEF LookStep, ReadCount, FetchSockets, ForceOffline, LogoutFinds, roomVars
  <2>3. QED BY <2>1, <2>2
<1>8. CASE MakeConversation BY <1>8 DEF MakeConversation, RoomsInv, RoomsJoined
<1>9. CASE AnnounceConversation
  <2>1. UNCHANGED <<con, live, inUser, inConv>> /\ conv' = "announced"
        /\ letter' = [s \in Sockets |-> IF s \in inUser THEN "new" ELSE letter[s]]
    BY <1>9 DEF AnnounceConversation
  <2>2. \A s \in live : con[s] \in {"count", "up"} => letter'[s] = "new"
    BY <2>1 DEF RoomsInv, Arrived
  <2>3. QED BY <2>1, <2>2 DEF RoomsInv, RoomsJoined
<1>10. QED
  BY <1>2, <1>3, <1>4, <1>5, <1>6, <1>7, <1>8, <1>9 DEF PresenceNext

(* A page that connects while a conversation begins is in its room or on   *)
(* its way there, unless its request to join failed, for any number of     *)
(* connections of the user.                                                *)
THEOREM RoomsAreJoined == PresenceSpec => []RoomsJoined
<1>1. PresenceInit => RoomsInv BY RoomsStart
<1>2. RoomsInv /\ [PresenceNext]_presenceVars => RoomsInv' BY RoomsStep
<1>3. RoomsInv => RoomsJoined BY DEF RoomsInv, RoomsJoined
<1>4. QED BY <1>1, <1>2, <1>3, PTL DEF PresenceSpec

-----------------------------------------------------------------------------
(* The counter of Presence. *)

(* The sockets whose connection was counted and whose disconnection has    *)
(* not taken it back.                                                      *)
Counting == {s \in Sockets : con[s] = "up" /\ (s \in live \/ dis[s].pc = "decrement")}

DisState == [pc: {"none", "decrement", "erase", "over"}, read: Int]

(* A socket disconnects once, and after it connected. *)
Ends == \A s \in Sockets : /\ con[s] = "off" => s \notin live
                           /\ s \in live \/ con[s] = "off" => dis[s].pc = "none"

(* Unless a count was lost, the counter is at least their number; it may   *)
(* be more after a process stopped.                                        *)
CountInv ==
  /\ RoomsInv
  /\ dis \in [Sockets -> DisState] /\ count \in Int /\ astray \in BOOLEAN
  /\ inUser \subseteq live /\ Ends
  /\ \A s \in Sockets : dis[s].pc = "erase" => dis[s].read <= 0
  /\ ~astray => Cardinality(Counting) <= count

LEMMA CountingFinite == /\ IsFiniteSet(Counting) /\ Cardinality(Counting) \in Nat
                        /\ IsFiniteSet(Counting') /\ Cardinality(Counting)' \in Nat
<1>1. Counting \subseteq Sockets /\ Counting' \subseteq Sockets BY DEF Counting
<1>2. IsFiniteSet(Counting) /\ IsFiniteSet(Counting')
  BY <1>1, FS_Subset, PresenceAssumption
<1>3. QED BY <1>2, FS_CardinalityType

(* A step after which nobody counts who did not before, the counter as it  *)
(* was.                                                                    *)
LEMMA CountKept ==
  ASSUME CountInv, RoomsInv', UNCHANGED <<count, astray>>, Counting' \subseteq Counting,
         dis' \in [Sockets -> DisState], inUser' \subseteq live', Ends',
         \A s \in Sockets : dis'[s].pc = "erase" => dis'[s].read <= 0
  PROVE  CountInv'
<1>1. Cardinality(Counting)' <= Cardinality(Counting)
  BY CountingFinite, FS_Subset
<1>2. ~astray => Cardinality(Counting)' <= count
  BY <1>1, CountingFinite DEF CountInv
<1>3. QED BY <1>2 DEF CountInv

LEMMA CountStart == PresenceInit => CountInv
<1> SUFFICES ASSUME PresenceInit PROVE CountInv
  OBVIOUS
<1>1. Counting = {} BY DEF PresenceInit, Counting
<1>2. Cardinality(Counting) = 0 BY <1>1, FS_EmptySet
<1>3. RoomsInv BY RoomsStart
<1>4. dis \in [Sockets -> DisState] /\ \A s \in Sockets : dis[s].pc # "erase"
  BY DEF PresenceInit, DisState
<1>5. count = 0 /\ astray \in BOOLEAN /\ inUser = {} /\ live = {} BY DEF PresenceInit
<1>6. Ends BY DEF PresenceInit, Ends
<1>7. Cardinality(Counting) <= count /\ count \in Int BY <1>2, <1>5
<1>8. QED BY <1>3, <1>4, <1>5, <1>6, <1>7 DEF CountInv

(* Sockets S leave, of which those in D are disconnected by a handler. *)
LEMMA LeaveCounted ==
  ASSUME CountInv, RoomsInv', NEW S, NEW D, Leave(S), Disconnecting(D),
         UNCHANGED <<count, astray>>,
         \A s \in Sockets : /\ con'[s] = "up" => con[s] = "up"
                            /\ con'[s] = "off" => con[s] = "off",
         D \subseteq S \cap live
  PROVE  CountInv'
<1>1. dis' = [s \in Sockets |-> IF s \in D THEN [pc |-> "decrement", read |-> 0] ELSE dis[s]]
  BY DEF Disconnecting
<1>2. [pc |-> "decrement", read |-> 0] \in DisState BY DEF DisState
<1>3. dis' \in [Sockets -> DisState] BY <1>1, <1>2 DEF CountInv
<1>4. \A s \in Sockets : dis'[s].pc = "erase" => dis'[s].read <= 0 BY <1>1 DEF CountInv
<1>5. inUser' \subseteq live' BY DEF CountInv, Leave
<1>6. Counting' \subseteq Counting BY <1>1 DEF Counting, Leave
<1>7. Ends' BY <1>1 DEF CountInv, Ends, Leave
<1>8. QED BY <1>3, <1>4, <1>5, <1>6, <1>7, CountKept

LEMMA ConnectCounted ==
  ASSUME CountInv, RoomsInv', NEW s \in Sockets, ConnectStep(s)
  PROVE  CountInv'
<1>0. RoomsInv /\ con \in [Sockets -> ConPCs] BY DEF CountInv, RoomsInv
<1>1. CASE OpenSocket(s) \/ JoinUser(s) \/ ListConversations(s) \/ JoinListed(s)
  <2>1. UNCHANGED <<dis, count, astray>>
    BY <1>1 DEF OpenSocket, JoinUser, ListConversations, JoinListed
  <2>2. inUser' \subseteq live'
    BY <1>1 DEF OpenSocket, JoinUser, ListConversations, JoinListed, Join, CountInv, roomVars
  <2>3. con' = [con EXCEPT ![s] = con'[s]] /\ con'[s] # "up" /\ con[s] # "up"
    BY <1>0, <1>1 DEF OpenSocket, JoinUser, ListConversations, JoinListed, ConGoto
  <2>4. \A t \in Sockets \ {s} : t \in live' => t \in live
    BY <1>1 DEF OpenSocket, JoinUser, ListConversations, JoinListed
  <2>5. \A t \in Sockets : t # s => con'[t] = con[t] BY <1>0, <2>3
  <2>6. Counting' \subseteq Counting BY <2>1, <2>3, <2>4, <2>5 DEF Counting
  <2>7. con'[s] # "off"
    BY <1>0, <1>1 DEF OpenSocket, JoinUser, ListConversations, JoinListed, ConGoto
  <2>8. s \in live' => con[s] = "off" \/ s \in live
    BY <1>1 DEF OpenSocket, JoinUser, ListConversations, JoinListed
  <2>9. Ends' BY <2>1, <2>4, <2>5, <2>7, <2>8 DEF CountInv, Ends
  <2>10. QED BY <2>1, <2>2, <2>6, <2>9, CountKept DEF CountInv
<1>2. CASE PresenceConnect(s)
  <2>1. con' = [con EXCEPT ![s] = "up"] /\ count' = count + 1 /\ UNCHANGED <<dis, live, astray, inUser>>
    BY <1>2 DEF PresenceConnect, ConGoto, roomVars
  <2>2. Counting' \subseteq Counting \cup {s} BY <1>0, <2>1 DEF Counting
  <2>3. /\ IsFiniteSet(Counting \cup {s})
        /\ Cardinality(Counting \cup {s}) <= Cardinality(Counting) + 1
    <3>1. IsFiniteSet(Counting) /\ Cardinality(Counting) \in Nat BY CountingFinite
    <3>2. IsFiniteSet(Counting \cup {s}) BY <3>1, FS_AddElement
    <3>3. Cardinality(Counting \cup {s}) \in {Cardinality(Counting), Cardinality(Counting) + 1}
      BY <3>1, FS_AddElement
    <3>4. QED BY <3>1, <3>2, <3>3
  <2>4. Cardinality(Counting') <= Cardinality(Counting \cup {s}) BY <2>2, <2>3, FS_Subset
  <2>5. Cardinality(Counting \cup {s}) \in Nat BY <2>3, FS_CardinalityType
  <2>6. Cardinality(Counting)' = Cardinality(Counting') OBVIOUS
  <2>7. count \in Int /\ (~astray => Cardinality(Counting) <= count) BY DEF CountInv
  <2>8. count' \in Int BY <2>1, <2>7
  <2>9. ~astray' => Cardinality(Counting)' <= count'
    <3>1. SUFFICES ASSUME ~astray PROVE Cardinality(Counting)' <= count'
      BY <2>1
    <3>2. Cardinality(Counting) <= count /\ count' = count + 1 BY <2>1, <2>7, <3>1
    <3>3. QED BY <2>3, <2>4, <2>5, <2>6, <2>7, <3>2, CountingFinite
  <2>10. Ends' BY <1>0, <2>1 DEF CountInv, Ends
  <2>11. QED BY <2>1, <2>8, <2>9, <2>10 DEF CountInv
<1>3. CASE ConnectFails(s)
  <2>1. Leave({s}) /\ Disconnecting({s} \cap live) /\ UNCHANGED <<count, astray>>
    BY <1>3 DEF ConnectFails
  <2>2. \A t \in Sockets : /\ con'[t] = "up" => con[t] = "up"
                           /\ con'[t] = "off" => con[t] = "off"
    BY <1>0, <1>3 DEF ConnectFails, ConGoto
  <2>3. QED BY <2>1, <2>2, LeaveCounted
<1>4. QED BY <1>1, <1>2, <1>3 DEF ConnectStep

LEMMA DisconnectCounted ==
  ASSUME CountInv, RoomsInv', NEW s \in Sockets, DisconnectStep(s)
  PROVE  CountInv'
<1>0. dis \in [Sockets -> DisState] /\ count \in Int BY DEF CountInv
<1>1. CASE CloseSocket(s)
  BY <1>1, LeaveCounted DEF CloseSocket
<1>2. CASE PresenceDisconnect(s)
  <2> DEFINE r == IF count <= 1 THEN [pc |-> "erase", read |-> count - 1]
                  ELSE [pc |-> "over", read |-> 0]
  <2>1. r \in DisState /\ r.pc # "decrement" /\ (r.pc = "erase" => r.read <= 0)
    BY <1>0 DEF DisState
  <2>2. count' = count - 1 /\ dis' = [dis EXCEPT ![s] = r] /\ UNCHANGED <<con, live, inUser>>
    BY <1>2 DEF PresenceDisconnect, roomVars
  <2>3. astray' = (astray \/ con[s] # "up") BY <1>2 DEF PresenceDisconnect
  <2>4. dis[s].pc = "decrement" BY <1>2 DEF PresenceDisconnect
  <2> HIDE DEF r
  <2>5. dis' \in [Sockets -> DisState] /\ dis'[s] = r /\ \A t \in Sockets \ {s} : dis'[t] = dis[t]
    BY <1>0, <2>1, <2>2
  <2>6. \A t \in Sockets : dis'[t].pc = "erase" => dis'[t].read <= 0
    BY <2>1, <2>5 DEF CountInv
  <2>7. Ends'
    <3>1. s \notin live /\ con[s] # "off" BY <2>4 DEF CountInv, Ends
    <3>2. QED BY <2>2, <2>5, <3>1 DEF CountInv, Ends
  <2>8. astray' \in BOOLEAN /\ count' \in Int BY <1>0, <2>2, <2>3 DEF CountInv
  <2>9. CASE astray' BY <2>2, <2>5, <2>6, <2>9, <2>7, <2>8 DEF CountInv
  <2>10. CASE ~astray'
    <3>1. con[s] = "up" /\ ~astray BY <2>3, <2>10
    <3>2. s \in Counting BY <2>4, <3>1 DEF Counting
    <3>3. s \notin live => Counting' \subseteq Counting \ {s} BY <2>1, <2>2, <2>5 DEF Counting
    <3>4. s \notin live BY <2>4 DEF CountInv, Ends
    <3>5. Cardinality(Counting \ {s}) = Cardinality(Counting) - 1 /\ IsFiniteSet(Counting \ {s})
      BY <3>2, CountingFinite, FS_RemoveElement
    <3>6. Cardinality(Counting') <= Cardinality(Counting \ {s}) BY <3>3, <3>4, <3>5, FS_Subset
    <3>7. Cardinality(Counting)' = Cardinality(Counting') OBVIOUS
    <3>8. Cardinality(Counting) <= count BY <3>1 DEF CountInv
    <3>9. Cardinality(Counting)' <= count' /\ count' \in Int
      BY <1>0, <2>2, <3>5, <3>6, <3>7, <3>8, CountingFinite
    <3>10. QED BY <2>2, <2>5, <2>6, <2>7, <2>8, <3>9 DEF CountInv
  <2>11. QED BY <2>9, <2>10
<1>3. CASE EraseCount(s)
  <2> DEFINE r == [pc |-> "over", read |-> 0]
  <2>1. r \in DisState /\ r.pc = "over" BY DEF DisState
  <2>2. count' = 0 /\ dis' = [dis EXCEPT ![s] = r] /\ UNCHANGED <<con, live, inUser>>
    BY <1>3 DEF EraseCount, roomVars
  <2>3. astray' = (astray \/ count > dis[s].read) BY <1>3 DEF EraseCount
  <2>4. dis[s].pc = "erase" /\ dis[s].read \in Int /\ dis[s].read <= 0
    BY <1>0, <1>3 DEF EraseCount, CountInv, DisState
  <2> HIDE DEF r
  <2>5. dis' \in [Sockets -> DisState] /\ dis'[s] = r /\ \A t \in Sockets \ {s} : dis'[t] = dis[t]
    BY <1>0, <2>1, <2>2
  <2>6. \A t \in Sockets : dis'[t].pc = "erase" => dis'[t].read <= 0
    BY <2>1, <2>5 DEF CountInv
  <2>7. Ends'
    <3>1. s \notin live /\ con[s] # "off" BY <2>4 DEF CountInv, Ends
    <3>2. QED BY <2>2, <2>5, <3>1 DEF CountInv, Ends
  <2>8. Counting' \subseteq Counting BY <2>1, <2>2, <2>5 DEF Counting
  <2>9. Cardinality(Counting') <= Cardinality(Counting) BY <2>8, CountingFinite, FS_Subset
  <2>10. Cardinality(Counting)' = Cardinality(Counting') OBVIOUS
  <2>11. ~astray' => Cardinality(Counting)' <= count'
    <3>1. SUFFICES ASSUME ~astray' PROVE Cardinality(Counting)' <= count'
      OBVIOUS
    <3>2. ~astray /\ ~(count > dis[s].read) BY <2>3, <3>1
    <3>3. Cardinality(Counting) <= count BY <3>2 DEF CountInv
    <3>4. QED BY <1>0, <2>2, <2>4, <2>9, <2>10, <3>2, <3>3, CountingFinite
  <2>12. astray' \in BOOLEAN /\ count' \in Int BY <2>2, <2>3 DEF CountInv
  <2>13. QED BY <2>2, <2>5, <2>6, <2>7, <2>11, <2>12 DEF CountInv
<1>4. QED BY <1>1, <1>2, <1>3 DEF DisconnectStep

LEMMA LookCounted ==
  ASSUME CountInv, RoomsInv', NEW l \in Looks, LookStep(l)
  PROVE  CountInv'
<1>1. CASE ReadCount(l) \/ FetchSockets(l) \/ LogoutFinds(l)
  <2>1. UNCHANGED <<con, dis, live, inUser, count, astray>>
    BY <1>1 DEF ReadCount, FetchSockets, LogoutFinds, roomVars
  <2>2. Counting' = Counting BY <2>1 DEF Counting
  <2>3. Ends' BY <2>1 DEF CountInv, Ends
  <2>4. QED BY <2>1, <2>2, <2>3, CountKept DEF CountInv
<1>2. CASE LogoutCloses(l)
  <2> DEFINE S == look[l].found \cap live
  <2>1. Leave(S) /\ Disconnecting(S) /\ UNCHANGED <<con, count, astray>>
    BY <1>2 DEF LogoutCloses
  <2>2. S \subseteq S \cap live OBVIOUS
  <2> HIDE DEF S
  <2>3. QED BY <2>1, <2>2, LeaveCounted
<1>3. CASE ForceOffline(l)
  <2>1. count' = 0 /\ UNCHANGED <<con, dis, live, inUser>> BY <1>3 DEF ForceOffline, roomVars
  <2>2. astray' = (astray \/ inUser # {} \/ \E s \in Sockets : dis[s].pc = "decrement")
    BY <1>3 DEF ForceOffline
  <2>3. astray' \in BOOLEAN /\ count' \in Int BY <2>1, <2>2 DEF CountInv
  <2>4. ~astray' => Counting' = {}
    BY <2>1, <2>2 DEF Counting, CountInv, RoomsInv, Arrived
  <2>5. ~astray' => Cardinality(Counting)' <= count'
    <3>1. SUFFICES ASSUME ~astray' PROVE Cardinality(Counting)' <= count'
      OBVIOUS
    <3>2. Cardinality(Counting') = 0 BY <2>4, <3>1, FS_EmptySet
    <3>3. QED BY <2>1, <3>2
  <2>6. Ends' BY <2>1 DEF CountInv, Ends
  <2>7. QED BY <2>1, <2>3, <2>5, <2>6 DEF CountInv
<1>4. QED BY <1>1, <1>2, <1>3 DEF LookStep

LEMMA CountStep == CountInv /\ [PresenceNext]_presenceVars => CountInv'
<1> SUFFICES ASSUME CountInv, [PresenceNext]_presenceVars PROVE CountInv'
  OBVIOUS
<1>0. RoomsInv' BY RoomsStep DEF CountInv
<1>1. ASSUME UNCHANGED <<con, dis, live, inUser, count, astray>> PROVE CountInv'
  <2>1. Counting' = Counting BY <1>1 DEF Counting
  <2>2. Ends' BY <1>1 DEF CountInv, Ends
  <2>3. QED BY <1>0, <1>1, <2>1, <2>2, CountKept DEF CountInv
<1>2. CASE UNCHANGED presenceVars BY <1>1, <1>2 DEF presenceVars
<1>3. ASSUME NEW s \in Sockets, ConnectStep(s) PROVE CountInv' BY <1>0, <1>3, ConnectCounted
<1>4. ASSUME NEW s \in Sockets, DisconnectStep(s) PROVE CountInv' BY <1>0, <1>4, DisconnectCounted
<1>5. ASSUME NEW s \in Sockets, OnConversationNew(s) \/ OnJoin(s) PROVE CountInv'
  BY <1>1, <1>5 DEF OnConversationNew, OnJoin
<1>6. ASSUME NEW S \in SUBSET Sockets, ProcessStops(S) PROVE CountInv'
  <2> DEFINE r == [pc |-> "over", read |-> 0]
  <2>1. r \in DisState /\ r.pc = "over" BY DEF DisState
  <2>2. /\ con' = [s \in Sockets |-> IF s \in S THEN "failed" ELSE con[s]]
        /\ dis' = [s \in Sockets |-> IF s \in S THEN r ELSE dis[s]]
        /\ Leave(S) /\ UNCHANGED <<count, astray>>
    BY <1>6 DEF ProcessStops
  <2> HIDE DEF r
  <2>3. dis' \in [Sockets -> DisState] /\ \A s \in Sockets : dis'[s].pc = "erase" => dis'[s].read <= 0
    BY <2>1, <2>2 DEF CountInv
  <2>4. Counting' \subseteq Counting BY <2>1, <2>2 DEF Counting, Leave
  <2>5. Ends' BY <2>1, <2>2 DEF CountInv, Ends, Leave
  <2>6. inUser' \subseteq live' BY <2>2 DEF CountInv, Leave
  <2>7. QED BY <1>0, <2>2, <2>3, <2>4, <2>5, <2>6, CountKept
<1>7. ASSUME NEW l \in Looks, LookStep(l) PROVE CountInv' BY <1>0, <1>7, LookCounted
<1>8. CASE MakeConversation \/ AnnounceConversation
  BY <1>1, <1>8 DEF MakeConversation, AnnounceConversation
<1>9. QED
  BY <1>2, <1>3, <1>4, <1>5, <1>6, <1>7, <1>8 DEF PresenceNext

(* A user with a counted socket is counted, unless a count was lost in one *)
(* of the three ways, for any number of sockets, snapshots and logouts.    *)
THEOREM CountedStays == PresenceSpec => []CountedWhileConnected
<1>1. PresenceInit => CountInv BY CountStart
<1>2. CountInv /\ [PresenceNext]_presenceVars => CountInv' BY CountStep
<1>3. CountInv => CountedWhileConnected
  <2> SUFFICES ASSUME CountInv, ~astray, NEW s \in live, con[s] = "up" PROVE count > 0
    BY DEF CountedWhileConnected
  <2>1. s \in Counting BY DEF Counting, CountInv, RoomsInv
  <2>2. Cardinality(Counting) # 0 BY <2>1, CountingFinite, FS_EmptySet
  <2>3. Cardinality(Counting) <= count /\ count \in Int BY DEF CountInv
  <2>4. QED BY <2>2, <2>3, CountingFinite
<1>4. QED BY <1>1, <1>2, <1>3, PTL DEF PresenceSpec

-----------------------------------------------------------------------------
(* Polls. *)

(* In a poll of one choice a ballot names one option, and a ballot about   *)
(* to insert has deleted what its voter chose, unless another crossed it.  *)
PollsInv ==
  /\ poll.multiple \in BOOLEAN
  /\ ~poll.made => ~poll.multiple
  /\ votes \subseteq Voters \X Options
  /\ ballot \in [Ballots -> Ballot]
  /\ \A b \in Ballots : ballot[b].pc # "idle" => \E v \in Voters : ballot[b].voter = {v}
  /\ ~poll.multiple => \A b \in Ballots : \A o, p \in ballot[b].ids : o = p
  /\ \A b \in Ballots : \A v \in ballot[b].voter \ crossed :
       ballot[b].pc = "insert" => Choices(v) \subseteq ballot[b].gone
  /\ OneChoice

LEMMA BallotNames == "idle" \in BallotPCs /\ "delete" \in BallotPCs /\ "insert" \in BallotPCs
BY DEF BallotPCs

LEMMA NoBallotRecord ==
  /\ NoBallot \in Ballot /\ NoBallot.pc = "idle" /\ NoBallot.voter = {} /\ NoBallot.ids = {}
BY BallotNames DEF NoBallot, Ballot

(* A ballot takes up a record, and the votes stay. *)
LEMMA BallotTaken ==
  ASSUME PollsInv, NEW b \in Ballots, NEW r \in Ballot,
         ballot' = [ballot EXCEPT ![b] = r], UNCHANGED <<poll, votes, crossed>>,
         r.pc # "idle" => \E v \in Voters : r.voter = {v},
         ~poll.multiple => \A o, p \in r.ids : o = p,
         r.pc = "insert" => \A v \in r.voter : Choices(v) \subseteq r.gone
  PROVE  PollsInv'
<1>1. ballot' \in [Ballots -> Ballot] /\ ballot'[b] = r
      /\ \A d \in Ballots \ {b} : ballot'[d] = ballot[d]
  BY DEF PollsInv
<1>2. \A v : Choices(v)' = Choices(v) BY DEF Choices
<1>3. OneChoice' BY DEF PollsInv, OneChoice
<1>4. \A d \in Ballots : ballot'[d].pc # "idle" => \E v \in Voters : ballot'[d].voter = {v}
  BY <1>1 DEF PollsInv
<1>5. ~poll.multiple => \A d \in Ballots : \A o, p \in ballot'[d].ids : o = p
  BY <1>1 DEF PollsInv
<1>6. \A d \in Ballots : \A v \in ballot'[d].voter \ crossed :
        ballot'[d].pc = "insert" => Choices(v) \subseteq ballot'[d].gone
  BY <1>1 DEF PollsInv
<1>7. QED BY <1>1, <1>2, <1>3, <1>4, <1>5, <1>6 DEF PollsInv

LEMMA InsertKeeps ==
  ASSUME PollsInv, NEW b \in Ballots, InsertVotes(b)
  PROVE  PollsInv'
<1>1. PICK v \in Voters : ballot[b].voter = {v} BY DEF PollsInv, InsertVotes
<1> DEFINE left == Choices(v) \ ballot[b].gone
<1>2. /\ votes' = {w \in votes : w[1] # v \/ w[2] \in left} \cup {<<v, o>> : o \in ballot[b].ids}
      /\ crossed' = IF \E d \in Ballots : Overtaken(b, d) THEN crossed \cup {v} ELSE crossed
      /\ ballot' = [d \in Ballots |->
                      IF d = b THEN NoBallot
                      ELSE IF Overtaken(b, d) THEN [ballot[d] EXCEPT !.gone = @ \ ballot[b].gone]
                      ELSE ballot[d]]
      /\ poll' = poll /\ ballot[b].pc = "insert"
  BY <1>1 DEF InsertVotes
<1>3. ballot[b] \in Ballot BY DEF PollsInv
<1>4. votes' \subseteq Voters \X Options
  <2>1. ballot[b].ids \subseteq Options BY <1>3 DEF Ballot
  <2>2. \A o \in ballot[b].ids : <<v, o>> \in Voters \X Options BY <2>1
  <2>3. QED BY <1>2, <2>2 DEF PollsInv
<1>5. \A d \in Ballots : /\ ballot'[d] \in Ballot
                         /\ d # b => ballot'[d].pc = ballot[d].pc
                         /\ d # b => ballot'[d].voter = ballot[d].voter
                         /\ d # b => ballot'[d].ids = ballot[d].ids
  <2> SUFFICES ASSUME NEW d \in Ballots
               PROVE  /\ ballot'[d] \in Ballot
                      /\ d # b => ballot'[d].pc = ballot[d].pc
                      /\ d # b => ballot'[d].voter = ballot[d].voter
                      /\ d # b => ballot'[d].ids = ballot[d].ids
    OBVIOUS
  <2> DEFINE k == [ballot[d] EXCEPT !.gone = @ \ ballot[b].gone]
  <2>1. ballot[d] \in Ballot BY DEF PollsInv
  <2>2. /\ k \in Ballot /\ k.pc = ballot[d].pc
        /\ k.voter = ballot[d].voter /\ k.ids = ballot[d].ids
    BY <2>1 DEF Ballot
  <2>3. ballot'[d] = IF d = b THEN NoBallot ELSE IF Overtaken(b, d) THEN k ELSE ballot[d]
    BY <1>2
  <2> HIDE DEF k
  <2>4. QED BY <2>1, <2>2, <2>3, NoBallotRecord
<1>6. ballot' \in [Ballots -> Ballot] BY <1>2, <1>5
<1>7. ballot'[b] = NoBallot BY <1>2
<1>8. \A u \in Voters \ {v} : Choices(u)' = Choices(u)
  BY <1>2 DEF Choices, PollsInv
<1>9. \A d \in Ballots : ballot'[d].pc # "idle" => \E u \in Voters : ballot'[d].voter = {u}
  BY <1>5, <1>7, NoBallotRecord DEF PollsInv
<1>10. ~poll.multiple => \A d \in Ballots : \A o, p \in ballot'[d].ids : o = p
  BY <1>5, <1>7, NoBallotRecord DEF PollsInv
<1>11. ASSUME NEW d \in Ballots, NEW u \in ballot'[d].voter \ crossed', ballot'[d].pc = "insert"
       PROVE  Choices(u)' \subseteq ballot'[d].gone
  <2>1. d # b /\ ballot[d].pc = "insert" /\ u \in ballot[d].voter /\ u \notin crossed
    BY <1>2, <1>5, <1>7, <1>11, NoBallotRecord
  <2>2. PICK x \in Voters : ballot[d].voter = {x} BY <2>1 DEF PollsInv
  <2>3. u = x BY <2>1, <2>2
  <2>4. ~Overtaken(b, d)
    <3>1. SUFFICES ASSUME Overtaken(b, d) PROVE FALSE
      OBVIOUS
    <3>2. v \in crossed' BY <1>2, <3>1
    <3>3. u = v BY <1>1, <2>1, <3>1 DEF Overtaken
    <3>4. QED BY <1>11, <3>2, <3>3
  <2>5. ballot'[d] = ballot[d] BY <1>2, <2>1, <2>4
  <2>6. u # v BY <1>1, <2>1, <2>2, <2>3, <2>4 DEF Overtaken
  <2>7. Choices(u)' = Choices(u) BY <1>8, <2>2, <2>3, <2>6
  <2>8. QED BY <2>1, <2>5, <2>7 DEF PollsInv
<1>12. OneChoice'
  <2> SUFFICES ASSUME ~poll.multiple, NEW u \in Voters \ crossed', NEW o \in Options, NEW p \in Options,
                      <<u, o>> \in votes', <<u, p>> \in votes'
               PROVE  o = p
    BY <1>2 DEF OneChoice
  <2>1. u \notin crossed BY <1>2
  <2>2. CASE u # v
    <3>1. <<u, o>> \in votes /\ <<u, p>> \in votes BY <1>2, <2>2
    <3>2. QED BY <2>1, <3>1 DEF PollsInv, OneChoice
  <2>3. CASE u = v
    <3>1. left = {} BY <1>1, <1>2, <2>1, <2>3 DEF PollsInv
    <3>2. o \in ballot[b].ids /\ p \in ballot[b].ids BY <1>2, <2>3, <3>1
    <3>3. QED BY <3>2 DEF PollsInv
  <2>4. QED BY <2>2, <2>3
<1>13. QED BY <1>2, <1>4, <1>6, <1>9, <1>10, <1>11, <1>12 DEF PollsInv

LEMMA PollsStart == PollsInit => PollsInv
BY NoBallotRecord DEF PollsInit, PollsInv, OneChoice

LEMMA PollsStep == PollsInv /\ [PollsNext]_pollVars => PollsInv'
<1> SUFFICES ASSUME PollsInv, [PollsNext]_pollVars PROVE PollsInv'
  OBVIOUS
<1>1. CASE UNCHANGED pollVars
  BY <1>1 DEF pollVars, PollsInv, OneChoice, Choices
<1>2. CASE CreatePoll
  <2>1. PICK m \in BOOLEAN : poll' = [made |-> TRUE, multiple |-> m] BY <1>2 DEF CreatePoll
  <2>2. poll'.multiple \in BOOLEAN /\ poll'.made BY <2>1
  <2>3. ~poll.multiple /\ UNCHANGED <<votes, ballot, crossed>> BY <1>2 DEF CreatePoll, PollsInv
  <2>4. \A v : Choices(v)' = Choices(v) BY <2>3 DEF Choices
  <2>5. OneChoice' BY <2>3 DEF PollsInv, OneChoice
  <2>6. QED BY <2>2, <2>3, <2>4, <2>5 DEF PollsInv
<1>3. ASSUME NEW b \in Ballots, CheckVote(b) PROVE PollsInv'
  <2>1. PICK v \in Voters, ids \in (SUBSET Options) \ {{}} :
          /\ poll.multiple \/ \E o \in Options : ids = {o}
          /\ ballot' = [ballot EXCEPT ![b] =
                          [pc |-> "delete", voter |-> {v}, ids |-> ids, gone |-> {}]]
    BY <1>3 DEF CheckVote
  <2> DEFINE r == [pc |-> "delete", voter |-> {v}, ids |-> ids, gone |-> {}]
  <2>2. r \in Ballot /\ r.pc = "delete" /\ r.voter = {v} /\ r.ids = ids BY BallotNames DEF Ballot
  <2>3. ballot' = [ballot EXCEPT ![b] = r] BY <2>1
  <2> HIDE DEF r
  <2>4. ~poll.multiple => \A o, p \in r.ids : o = p BY <2>1, <2>2
  <2>5. UNCHANGED <<poll, votes, crossed>> BY <1>3 DEF CheckVote
  <2>6. QED BY <2>2, <2>3, <2>4, <2>5, BallotTaken
<1>4. ASSUME NEW b \in Ballots, DeleteVotes(b) PROVE PollsInv'
  <2>1. PICK v \in ballot[b].voter :
          ballot' = [ballot EXCEPT ![b].pc = "insert", ![b].gone = Choices(v)]
    BY <1>4 DEF DeleteVotes
  <2> DEFINE r == [ballot[b] EXCEPT !.pc = "insert", !.gone = Choices(v)]
  <2>2. ballot[b] \in Ballot /\ ballot[b].pc = "delete" BY <1>4 DEF DeleteVotes, PollsInv
  <2>3. /\ r \in Ballot /\ r.pc = "insert" /\ r.voter = ballot[b].voter
        /\ r.ids = ballot[b].ids /\ r.gone = Choices(v)
    <3>1. Choices(v) \in SUBSET Options BY DEF Choices
    <3>2. QED BY <2>2, <3>1, BallotNames DEF Ballot
  <2>4. ballot' = [ballot EXCEPT ![b] = r] BY <2>1 DEF PollsInv
  <2> HIDE DEF r
  <2>5. PICK x \in Voters : ballot[b].voter = {x} BY <2>2 DEF PollsInv
  <2>6. \A u \in r.voter : u = v BY <2>1, <2>3, <2>5
  <2>7. \A u \in r.voter : Choices(u) \subseteq r.gone BY <2>3, <2>6
  <2>8. UNCHANGED <<poll, votes, crossed>> BY <1>4 DEF DeleteVotes
  <2>9. ~poll.multiple => \A o, p \in r.ids : o = p BY <2>3 DEF PollsInv
  <2>10. QED BY <2>3, <2>4, <2>5, <2>7, <2>8, <2>9, BallotTaken
<1>5. ASSUME NEW b \in Ballots, InsertVotes(b) PROVE PollsInv' BY <1>5, InsertKeeps
<1>6. ASSUME NEW b \in Ballots, RollBack(b) PROVE PollsInv'
  BY <1>6, NoBallotRecord, BallotTaken DEF RollBack
<1>7. QED BY <1>1, <1>2, <1>3, <1>4, <1>5, <1>6 DEF PollsNext

(* Without overlapping ballots a voter of a poll of one choice has one     *)
(* vote, for any number of voters, options and ballots.                    *)
THEOREM OneChoiceStays == PollsSpec => []OneChoice
<1>1. PollsInit => PollsInv BY PollsStart
<1>2. PollsInv /\ [PollsNext]_pollVars => PollsInv' BY PollsStep
<1>3. PollsInv => OneChoice BY DEF PollsInv, OneChoice
<1>4. QED BY <1>1, <1>2, <1>3, PTL DEF PollsSpec

-----------------------------------------------------------------------------
(* ReadMarks. *)

ReadJob == [pc: JobPCs, at: Times, own: BOOLEAN]
MemberRow == [removed: BOOLEAN, hidden: BOOLEAN, cleared: Times, read: Times]

(* Times are not in the future, and no message is newer than a removal     *)
(* that is not written.                                                    *)
MarksInv ==
  /\ mine \in MemberRow
  /\ now \in Times /\ newest \in Times
  /\ job \in [ReadCalls -> ReadJob]
  /\ buried \in BOOLEAN
  /\ newest <= now /\ mine.cleared <= now
  /\ \A j \in ReadCalls : job[j].at <= now
  /\ buried \/ \A j \in ReadCalls : job[j].pc = "remove" => newest <= job[j].at
  /\ RemovedComesBack

LEMMA JobNames ==
  /\ "idle" \in JobPCs /\ "create" \in JobPCs /\ "restore" \in JobPCs /\ "remove" \in JobPCs
  /\ "clear" \in JobPCs /\ "mark" \in JobPCs /\ "find" \in JobPCs /\ "revive" \in JobPCs
  /\ "unhide" \in JobPCs
BY DEF JobPCs

LEMMA TimesAreNat == \A t \in Times : t \in Nat /\ t <= MaxTime
BY ReadMarksAssumption DEF Times

LEMMA NoJobRecord ==
  NoJob \in ReadJob /\ NoJob.pc = "idle" /\ NoJob.at = 0 /\ NoJob.own = FALSE
<1>1. 0 \in Times BY ReadMarksAssumption DEF Times
<1>2. QED BY <1>1, JobNames DEF NoJob, ReadJob

(* A handler takes up a record and the member's row may be written, as     *)
(* long as what RemovedComesBack rests on stays.                           *)
LEMMA MarksTaken ==
  ASSUME MarksInv, NEW j \in ReadCalls, NEW r \in ReadJob, NEW m \in MemberRow,
         job' = [job EXCEPT ![j] = r], mine' = m, UNCHANGED <<now, newest>>,
         buried' \in BOOLEAN, buried => buried',
         r.at <= now, m.cleared <= now,
         buried' \/ r.pc # "remove" \/ newest <= r.at,
         \/ buried'
         \/ ~m.removed
         \/ newest <= m.cleared
         \/ mine.removed /\ m.cleared >= mine.cleared
             /\ (job[j].pc \in {"find", "revive"} => r.pc \in {"find", "revive"})
  PROVE  MarksInv'
<1>1. /\ job' \in [ReadCalls -> ReadJob] /\ job'[j] = r
      /\ \A i \in ReadCalls \ {j} : job'[i] = job[i]
  BY DEF MarksInv
<1>2. \A i \in ReadCalls : job'[i].at <= now BY <1>1 DEF MarksInv
<1>3. buried' \/ \A i \in ReadCalls : job'[i].pc = "remove" => newest <= job'[i].at
  BY <1>1 DEF MarksInv
<1>4. newest \in Nat /\ m.cleared \in Nat /\ mine.cleared \in Nat
  BY TimesAreNat DEF MarksInv, MemberRow
<1>5. RemovedComesBack'
  <2> SUFFICES ASSUME m.removed, ~buried', newest > m.cleared
               PROVE  \E i \in ReadCalls : job'[i].pc \in {"find", "revive"}
    BY DEF RemovedComesBack
  <2>1. mine.removed /\ newest > mine.cleared
        /\ (job[j].pc \in {"find", "revive"} => r.pc \in {"find", "revive"})
    BY <1>4
  <2>2. PICK i \in ReadCalls : job[i].pc \in {"find", "revive"}
    BY <2>1 DEF MarksInv, RemovedComesBack
  <2>3. QED BY <1>1, <2>1, <2>2
<1>6. QED BY <1>1, <1>2, <1>3, <1>5 DEF MarksInv

LEMMA MarksStart == MarksInit => MarksInv
<1> SUFFICES ASSUME MarksInit PROVE MarksInv
  OBVIOUS
<1>1. 0 \in Times BY ReadMarksAssumption DEF Times
<1>2. mine \in MemberRow /\ mine.removed = FALSE /\ mine.cleared = 0
  BY <1>1 DEF MarksInit, MemberRow
<1>3. now = 0 /\ newest = 0 /\ buried \in BOOLEAN BY DEF MarksInit
<1>4. job = [j \in ReadCalls |-> NoJob] BY DEF MarksInit
<1>5. RemovedComesBack BY <1>2 DEF RemovedComesBack
<1>6. QED BY <1>1, <1>2, <1>3, <1>4, <1>5, NoJobRecord DEF MarksInv

(* A handler that leaves the times of the row alone. *)
LEMMA StepKeeps ==
  ASSUME MarksInv, NEW j \in ReadCalls, NEW m \in MemberRow, NEW pc \in JobPCs,
         Step(j, m, pc), pc # "remove", m.cleared = mine.cleared,
         ~m.removed \/ (mine.removed /\ job[j].pc \notin {"find", "revive"})
  PROVE  MarksInv'
<1>1. job[j] \in ReadJob /\ job[j].at <= now BY DEF MarksInv
<1>2. /\ 0 <= now /\ m.cleared <= now /\ m.cleared >= mine.cleared
      /\ buried' \in BOOLEAN /\ (buried => buried') /\ buried' = buried
  <2>1. mine.cleared \in Nat BY TimesAreNat DEF MarksInv, MemberRow
  <2>2. 0 <= now /\ m.cleared <= now /\ m.cleared >= mine.cleared
    BY <2>1, TimesAreNat DEF MarksInv
  <2>3. buried' = buried BY DEF Step
  <2>4. QED BY <2>2, <2>3 DEF MarksInv
<1>3. CASE pc = "idle"
  <2>1. job' = [job EXCEPT ![j] = NoJob] /\ mine' = m /\ UNCHANGED <<now, newest>>
    BY <1>3 DEF Step
  <2>2. ~m.removed \/ (mine.removed /\ job[j].pc \notin {"find", "revive"}) OBVIOUS
  <2>3. QED BY <1>2, <2>1, <2>2, NoJobRecord, MarksTaken
<1>4. CASE pc # "idle"
  <2> DEFINE k == [job[j] EXCEPT !.pc = pc]
  <2>1. k \in ReadJob /\ k.pc = pc /\ k.at = job[j].at BY <1>1 DEF ReadJob
  <2>2. job' = [job EXCEPT ![j] = k] /\ mine' = m /\ UNCHANGED <<now, newest>>
    BY <1>4 DEF Step, MarksInv
  <2> HIDE DEF k
  <2>3. ~m.removed \/ (mine.removed /\ job[j].pc \notin {"find", "revive"}) OBVIOUS
  <2>4. k.at <= now /\ k.pc # "remove" BY <1>1, <2>1
  <2>5. QED BY <1>2, <2>1, <2>2, <2>3, <2>4, MarksTaken
<1>5. QED BY <1>3, <1>4

(* A handler begins, or changes nothing but its record. *)
LEMMA RecordKeeps ==
  ASSUME MarksInv, NEW j \in ReadCalls, NEW r \in ReadJob,
         job' = [job EXCEPT ![j] = r], UNCHANGED <<mine, now, newest, buried>>,
         r.at <= now, r.pc = "remove" => newest <= r.at,
         ~mine.removed \/ (job[j].pc \in {"find", "revive"} => r.pc \in {"find", "revive"})
  PROVE  MarksInv'
<1>1. mine \in MemberRow /\ mine.cleared \in Nat BY TimesAreNat DEF MarksInv, MemberRow
<1>2. mine.cleared >= mine.cleared /\ mine.cleared <= now BY <1>1 DEF MarksInv
<1>3. buried' \in BOOLEAN /\ (buried => buried') BY DEF MarksInv
<1>4. mine' = mine /\ UNCHANGED <<now, newest>> OBVIOUS
<1>5. r.pc # "remove" \/ newest <= r.at OBVIOUS
<1>6. \/ ~mine.removed
      \/ mine.removed /\ (job[j].pc \in {"find", "revive"} => r.pc \in {"find", "revive"})
  OBVIOUS
<1>7. QED BY <1>1, <1>2, <1>3, <1>4, <1>5, <1>6, MarksTaken

(* The row is cleared or removed. *)
LEMMA WriteClearedKeeps ==
  ASSUME MarksInv, NEW j \in ReadCalls, ClearForViewer(j) \/ RemoveForViewer(j)
  PROVE  MarksInv'
<1>0. /\ mine \in MemberRow /\ job[j] \in ReadJob /\ job[j].at \in Times /\ job[j].at <= now
      /\ mine.cleared \in Times
  BY DEF MarksInv, ReadJob, MemberRow
<1>1. PICK w \in MemberRow :
        /\ WriteCleared(j, w)
        /\ \/ w = mine /\ job[j].pc = "clear"
           \/ job[j].pc = "remove"
  <2>1. CASE ClearForViewer(j) BY <1>0, <2>1 DEF ClearForViewer
  <2>2. CASE RemoveForViewer(j)
    <3> DEFINE w == [mine EXCEPT !.removed = TRUE, !.hidden = FALSE]
    <3>1. w \in MemberRow BY <1>0 DEF MemberRow
    <3>2. WriteCleared(j, w) /\ job[j].pc = "remove" BY <2>2 DEF RemoveForViewer
    <3> HIDE DEF w
    <3>3. QED BY <3>1, <3>2
  <2>3. QED BY <2>1, <2>2
<1> DEFINE m == [w EXCEPT !.cleared = job[j].at, !.read = job[j].at]
<1>2. m \in MemberRow /\ m.cleared = job[j].at /\ m.removed = w.removed BY <1>0 DEF MemberRow
<1>3. /\ mine' = m /\ job' = [job EXCEPT ![j] = NoJob] /\ UNCHANGED <<now, newest>>
      /\ buried' = (buried \/ job[j].at < mine.cleared)
  BY <1>1 DEF WriteCleared
<1> HIDE DEF m
<1>4. buried' \in BOOLEAN /\ (buried => buried') BY <1>3
<1>5. job[j].at \in Nat /\ mine.cleared \in Nat /\ newest \in Nat /\ now \in Nat
  BY <1>0, TimesAreNat DEF MarksInv
<1>6. \/ buried'
      \/ ~m.removed
      \/ newest <= m.cleared
      \/ mine.removed /\ m.cleared >= mine.cleared
          /\ (job[j].pc \in {"find", "revive"} => NoJob.pc \in {"find", "revive"})
  <2>1. CASE job[j].pc = "remove"
    BY <1>2, <1>4, <2>1 DEF MarksInv
  <2>2. CASE job[j].pc = "clear" /\ w = mine
    <3>1. buried' \/ m.cleared >= mine.cleared
      <4>1. CASE job[j].at < mine.cleared BY <1>3, <4>1
      <4>2. CASE ~(job[j].at < mine.cleared)
        <5>1. m.cleared >= mine.cleared BY <1>2, <1>5, <4>2
        <5>2. QED BY <5>1
      <4>3. QED BY <4>1, <4>2
    <3>2. m.removed => mine.removed BY <1>2, <2>2
    <3>3. QED BY <2>2, <3>1, <3>2
  <2>3. QED BY <1>1, <2>1, <2>2
<1>7. NoJob.at <= now /\ NoJob.pc # "remove" BY <1>5, NoJobRecord
<1>8. QED BY <1>0, <1>2, <1>3, <1>4, <1>6, <1>7, NoJobRecord, MarksTaken

LEMMA OpenKeeps ==
  ASSUME MarksInv, NEW j \in ReadCalls,
         FindDirect(j) \/ RestoreForViewer(j) \/ CreateDirect(j) \/ SetHidden(j)
  PROVE  MarksInv'
<1>0. mine \in MemberRow /\ 0 <= now BY TimesAreNat DEF MarksInv
<1>1. CASE FindDirect(j)
  <2> DEFINE r == [NoJob EXCEPT !.pc = IF made THEN "restore" ELSE "create"]
  <2>1. r \in ReadJob /\ r.at = 0 /\ r.pc \in {"restore", "create"}
    BY NoJobRecord, JobNames DEF ReadJob
  <2>2. job[j].pc = "idle" /\ job' = [job EXCEPT ![j] = r] /\ UNCHANGED <<mine, now, newest, buried>>
    BY <1>1 DEF FindDirect, Begin
  <2> HIDE DEF r
  <2>3. QED BY <1>0, <2>1, <2>2, RecordKeeps
<1>2. CASE RestoreForViewer(j)
  <2> DEFINE m == [mine EXCEPT !.removed = FALSE, !.hidden = FALSE]
  <2>1. m \in MemberRow /\ ~m.removed /\ m.cleared = mine.cleared BY <1>0 DEF MemberRow
  <2>2. Step(j, m, "idle") BY <1>2 DEF RestoreForViewer
  <2> HIDE DEF m
  <2>3. QED BY <2>1, <2>2, JobNames, StepKeeps
<1>3. CASE CreateDirect(j)
  <2>1. job[j].pc = "create" /\ job' = [job EXCEPT ![j] = NoJob] /\ UNCHANGED <<mine, now, newest, buried>>
    BY <1>3 DEF CreateDirect
  <2>2. QED BY <1>0, <2>1, NoJobRecord, RecordKeeps
<1>4. CASE SetHidden(j)
  <2>1. PICK h \in BOOLEAN : Step(j, [mine EXCEPT !.hidden = h], "idle") BY <1>4 DEF SetHidden
  <2> DEFINE m == [mine EXCEPT !.hidden = h]
  <2>2. m \in MemberRow /\ m.removed = mine.removed /\ m.cleared = mine.cleared
    BY <1>0 DEF MemberRow
  <2>3. job[j].pc = "idle" BY <1>4 DEF SetHidden
  <2>4. Step(j, m, "idle") BY <2>1
  <2> HIDE DEF m
  <2>5. QED BY <2>2, <2>3, <2>4, JobNames, StepKeeps
<1>5. QED BY <1>1, <1>2, <1>3, <1>4

LEMMA ChoosingKeeps ==
  ASSUME MarksInv, NEW j \in ReadCalls, ChooseTime(j) \/ ChooseMark(j) \/ MarkRead(j)
  PROVE  MarksInv'
<1>0. mine \in MemberRow /\ mine.cleared \in Times /\ now \in Times /\ now \in Nat
  BY TimesAreNat DEF MarksInv, MemberRow
<1>1. CASE ChooseTime(j)
  <2>1. PICK pc \in {"clear", "remove"} : Begin(j, [pc |-> pc, at |-> now, own |-> FALSE])
    BY <1>1 DEF ChooseTime
  <2> DEFINE r == [pc |-> pc, at |-> now, own |-> FALSE]
  <2>2. r \in ReadJob /\ r.at = now BY <1>0, JobNames DEF ReadJob
  <2>3. job[j].pc = "idle" /\ job' = [job EXCEPT ![j] = r] /\ UNCHANGED <<mine, now, newest, buried>>
    BY <2>1 DEF Begin
  <2> HIDE DEF r
  <2>4. newest <= r.at /\ r.at <= now BY <1>0, <2>2 DEF MarksInv
  <2>5. QED BY <2>2, <2>3, <2>4, RecordKeeps
<1>2. CASE ChooseMark(j)
  <2>1. PICK t \in 0..now : Begin(j, [pc |-> "mark", at |-> LaterDate(t, mine.cleared), own |-> FALSE])
    BY <1>2 DEF ChooseMark
  <2> DEFINE d == LaterDate(t, mine.cleared)
             r == [pc |-> "mark", at |-> d, own |-> FALSE]
  <2>2. mine.cleared <= now BY DEF MarksInv
  <2>3. d \in Times /\ d <= now BY <1>0, <2>2, TimesAreNat, ReadMarksAssumption DEF LaterDate, Times
  <2>4. job[j].pc = "idle" /\ job' = [job EXCEPT ![j] = r] /\ UNCHANGED <<mine, now, newest, buried>>
    BY <2>1 DEF Begin
  <2> HIDE DEF d
  <2>5. r \in ReadJob /\ r.at = d /\ r.pc = "mark" BY <2>3, JobNames DEF ReadJob
  <2> HIDE DEF r
  <2>6. QED BY <2>3, <2>4, <2>5, RecordKeeps
<1>3. CASE MarkRead(j)
  <2> DEFINE m == [mine EXCEPT !.read = job[j].at]
  <2>1. job[j].at \in Times /\ job[j].pc = "mark" BY <1>3 DEF MarkRead, MarksInv, ReadJob
  <2>2. m \in MemberRow /\ m.removed = mine.removed /\ m.cleared = mine.cleared
    BY <1>0, <2>1 DEF MemberRow
  <2>3. Step(j, m, "idle") BY <1>3 DEF MarkRead
  <2> HIDE DEF m
  <2>4. QED BY <2>1, <2>2, <2>3, JobNames, StepKeeps
<1>4. QED BY <1>1, <1>2, <1>3

LEMMA PostingKeeps ==
  ASSUME MarksInv, NEW j \in ReadCalls, PostMessage(j)
  PROVE  MarksInv'
<1>0. /\ mine \in MemberRow /\ mine.cleared \in Nat /\ now \in Nat /\ newest \in Nat
      /\ now \in Times /\ newest \in Times
  BY TimesAreNat DEF MarksInv, MemberRow
<1>1. PICK own \in BOOLEAN :
        /\ newest' = IF own THEN newest ELSE now
        /\ buried' = (buried \/ (~own /\ Removing))
        /\ job' = [job EXCEPT ![j] = [pc |-> "find", at |-> 0, own |-> own]]
  BY DEF PostMessage
<1> DEFINE r == [pc |-> "find", at |-> 0, own |-> own]
<1>2. 0 \in Times BY ReadMarksAssumption DEF Times
<1>3. r \in ReadJob /\ r.pc = "find" /\ r.at = 0 BY <1>2, JobNames DEF ReadJob
<1>4. job' = [job EXCEPT ![j] = r] BY <1>1
<1> HIDE DEF r
<1>5. /\ job' \in [ReadCalls -> ReadJob] /\ job'[j] = r
      /\ \A i \in ReadCalls \ {j} : job'[i] = job[i]
  BY <1>3, <1>4 DEF MarksInv
<1>6. UNCHANGED <<mine, now>> BY DEF PostMessage
<1>7. newest' \in Times /\ newest' <= now BY <1>0, <1>1 DEF MarksInv
<1>8. buried' \in BOOLEAN BY <1>1
<1>9. \A i \in ReadCalls : job'[i].at <= now BY <1>0, <1>3, <1>5 DEF MarksInv
<1>10. buried' \/ \A i \in ReadCalls : job'[i].pc = "remove" => newest' <= job'[i].at
  <2> SUFFICES ASSUME ~buried', NEW i \in ReadCalls, job'[i].pc = "remove"
               PROVE  newest' <= job'[i].at
    OBVIOUS
  <2>1. i # j /\ job'[i] = job[i] BY <1>3, <1>5
  <2>2. CASE own BY <1>1, <2>1, <2>2 DEF MarksInv
  <2>3. CASE ~own
    <3>1. ~(job[i].at < now) BY <1>1, <2>1, <2>3 DEF Removing
    <3>2. job[i].at \in Nat BY TimesAreNat DEF MarksInv, ReadJob
    <3>3. QED BY <1>0, <1>1, <2>1, <2>3, <3>1, <3>2
  <2>4. QED BY <2>2, <2>3
<1>11. RemovedComesBack' BY <1>3, <1>5 DEF RemovedComesBack
<1>12. QED BY <1>0, <1>5, <1>6, <1>7, <1>8, <1>9, <1>10, <1>11 DEF MarksInv

LEMMA RevealingKeeps ==
  ASSUME MarksInv, NEW j \in ReadCalls, FindRemoved(j) \/ ReviveRemoved(j) \/ UnhideSender(j)
  PROVE  MarksInv'
<1>0. mine \in MemberRow /\ job[j] \in ReadJob /\ job[j].at <= now /\ 0 <= now
  BY TimesAreNat DEF MarksInv
<1>1. CASE FindRemoved(j)
  <2> DEFINE unhide == job[j].own /\ (mine.hidden \/ mine.removed)
  <2>1. PICK peer \in BOOLEAN :
          job' = [job EXCEPT ![j] =
                    CASE mine.removed \/ peer -> [@ EXCEPT !.pc = "revive", !.own = unhide]
                      [] ~mine.removed /\ ~peer /\ unhide -> [@ EXCEPT !.pc = "unhide"]
                      [] OTHER -> NoJob]
    BY <1>1 DEF FindRemoved
  <2>2. UNCHANGED <<mine, now, newest, buried>> BY <1>1 DEF FindRemoved
  <2>3. unhide \in BOOLEAN BY <1>0 DEF ReadJob
  <2> HIDE DEF unhide
  <2> DEFINE a == [job[j] EXCEPT !.pc = "revive", !.own = unhide]
             b == [job[j] EXCEPT !.pc = "unhide"]
  <2>4. a \in ReadJob /\ a.pc = "revive" /\ a.at = job[j].at BY <1>0, <2>3, JobNames DEF ReadJob
  <2>5. b \in ReadJob /\ b.pc = "unhide" /\ b.at = job[j].at BY <1>0, JobNames DEF ReadJob
  <2>6. \/ job' = [job EXCEPT ![j] = a]
        \/ ~mine.removed /\ job' = [job EXCEPT ![j] = b]
        \/ ~mine.removed /\ job' = [job EXCEPT ![j] = NoJob]
    <3>1. CASE mine.removed \/ peer BY <2>1, <3>1 DEF MarksInv
    <3>2. CASE ~(mine.removed \/ peer) /\ unhide BY <2>1, <3>2 DEF MarksInv
    <3>3. CASE ~(mine.removed \/ peer) /\ ~unhide BY <2>1, <3>3 DEF MarksInv
    <3>4. QED BY <3>1, <3>2, <3>3
  <2> HIDE DEF a, b
  <2>7. CASE job' = [job EXCEPT ![j] = a] BY <1>0, <2>2, <2>4, <2>7, RecordKeeps
  <2>8. CASE ~mine.removed /\ job' = [job EXCEPT ![j] = b] BY <1>0, <2>2, <2>5, <2>8, RecordKeeps
  <2>9. CASE ~mine.removed /\ job' = [job EXCEPT ![j] = NoJob]
    BY <1>0, <2>2, <2>9, NoJobRecord, RecordKeeps
  <2>10. QED BY <2>6, <2>7, <2>8, <2>9
<1>2. CASE ReviveRemoved(j)
  <2> DEFINE m  == [mine EXCEPT !.removed = FALSE]
             pc == IF job[j].own THEN "unhide" ELSE "idle"
  <2>1. m \in MemberRow /\ ~m.removed /\ m.cleared = mine.cleared BY <1>0 DEF MemberRow
  <2>2. pc \in JobPCs /\ pc # "remove" BY JobNames
  <2>3. Step(j, m, pc) BY <1>2 DEF ReviveRemoved
  <2> HIDE DEF m, pc
  <2>4. QED BY <2>1, <2>2, <2>3, StepKeeps
<1>3. CASE UnhideSender(j)
  <2> DEFINE m == [mine EXCEPT !.removed = FALSE, !.hidden = FALSE]
  <2>1. m \in MemberRow /\ ~m.removed /\ m.cleared = mine.cleared BY <1>0 DEF MemberRow
  <2>2. Step(j, m, "idle") BY <1>3 DEF UnhideSender
  <2> HIDE DEF m
  <2>3. QED BY <2>1, <2>2, JobNames, StepKeeps
<1>4. QED BY <1>1, <1>2, <1>3

LEMMA MarksStep == MarksInv /\ [MarksNext]_markVars => MarksInv'
<1> SUFFICES ASSUME MarksInv, [MarksNext]_markVars PROVE MarksInv'
  OBVIOUS
<1>0. /\ mine \in MemberRow /\ mine.cleared \in Nat /\ now \in Nat /\ newest \in Nat
      /\ now \in Times /\ newest \in Times
  BY TimesAreNat DEF MarksInv, MemberRow
<1>1. CASE UNCHANGED markVars BY <1>1 DEF markVars, MarksInv, RemovedComesBack
<1>2. ASSUME NEW j \in ReadCalls,
             FindDirect(j) \/ RestoreForViewer(j) \/ CreateDirect(j) \/ SetHidden(j)
      PROVE  MarksInv'
  BY <1>2, OpenKeeps
<1>3. ASSUME NEW j \in ReadCalls, ChooseTime(j) \/ ChooseMark(j) \/ MarkRead(j) PROVE MarksInv'
  BY <1>3, ChoosingKeeps
<1>4. ASSUME NEW j \in ReadCalls, ClearForViewer(j) \/ RemoveForViewer(j) PROVE MarksInv'
  BY <1>4, WriteClearedKeeps
<1>5. ASSUME NEW j \in ReadCalls, PostMessage(j) PROVE MarksInv' BY <1>5, PostingKeeps
<1>6. ASSUME NEW j \in ReadCalls, FindRemoved(j) \/ ReviveRemoved(j) \/ UnhideSender(j)
      PROVE  MarksInv'
  BY <1>6, RevealingKeeps
<1>7. ASSUME NEW j \in ReadCalls, AbandonJob(j) PROVE MarksInv'
  <2>1. /\ job' = [job EXCEPT ![j] = NoJob] /\ UNCHANGED <<mine, now, newest>>
        /\ buried' = (buried \/ job[j].pc \in {"find", "revive"})
    BY <1>7 DEF AbandonJob
  <2>2. buried' \in BOOLEAN /\ (buried => buried') BY <2>1
  <2>3. mine.cleared >= mine.cleared /\ mine.cleared <= now /\ NoJob.at <= now /\ NoJob.pc # "remove"
    BY <1>0, NoJobRecord DEF MarksInv
  <2>4. \/ buried'
        \/ ~mine.removed
        \/ mine.removed /\ (job[j].pc \in {"find", "revive"} => NoJob.pc \in {"find", "revive"})
    BY <2>1
  <2>5. QED BY <1>0, <2>1, <2>2, <2>3, <2>4, NoJobRecord, MarksTaken
<1>8. CASE PostPoll
  <2>1. newest' = now /\ UNCHANGED <<mine, now, job>>
        /\ buried' = (buried \/ mine.removed \/ Removing)
    BY <1>8 DEF PostPoll
  <2>2. buried' \in BOOLEAN BY <2>1
  <2>3. buried' \/ \A j \in ReadCalls : job[j].pc = "remove" => now <= job[j].at
    <3> SUFFICES ASSUME ~buried', NEW j \in ReadCalls, job[j].pc = "remove" PROVE now <= job[j].at
      OBVIOUS
    <3>1. ~(job[j].at < now) BY <2>1 DEF Removing
    <3>2. job[j].at \in Nat BY TimesAreNat DEF MarksInv, ReadJob
    <3>3. QED BY <1>0, <3>1, <3>2
  <2>4. RemovedComesBack' BY <2>1 DEF RemovedComesBack
  <2>5. QED BY <1>0, <2>1, <2>2, <2>3, <2>4 DEF MarksInv
<1>9. CASE Tick
  <2>1. now' = now + 1 /\ now < MaxTime /\ UNCHANGED <<mine, newest, job, buried>> BY <1>9 DEF Tick
  <2>2. now' \in Times /\ now <= now' BY <1>0, <2>1, ReadMarksAssumption DEF Times
  <2>3. \A j \in ReadCalls : job[j].at \in Nat BY TimesAreNat DEF MarksInv, ReadJob
  <2>4. \A j \in ReadCalls : job[j].at <= now' BY <1>0, <2>1, <2>3 DEF MarksInv
  <2>5. newest <= now' /\ mine.cleared <= now' BY <1>0, <2>1 DEF MarksInv
  <2>6. RemovedComesBack' BY <2>1 DEF MarksInv, RemovedComesBack
  <2>7. QED BY <2>1, <2>2, <2>4, <2>5, <2>6 DEF MarksInv
<1>10. QED
  BY <1>1, <1>2, <1>3, <1>4, <1>5, <1>6, <1>7, <1>8, <1>9 DEF MarksNext

(* A conversation the member removed comes back with the next message, but *)
(* for what RemovedComesBack leaves out, for any number of handlers.       *)
THEOREM RemovedReturns == MarksSpec => []RemovedComesBack
<1>1. MarksInit => MarksInv BY MarksStart
<1>2. MarksInv /\ [MarksNext]_markVars => MarksInv' BY MarksStep
<1>3. MarksInv => RemovedComesBack BY DEF MarksInv, RemovedComesBack
<1>4. QED BY <1>1, <1>2, <1>3, PTL DEF MarksSpec

-----------------------------------------------------------------------------
(* The occurrences of Series. *)

(* The least number, which is what stands for induction below. *)

Below == {p \in Nat \X Nat : p[1] < p[2]}

(* Any set of numbers that is not empty has a least one. *)
LEMMA Least ==
  ASSUME NEW T, T \subseteq Nat, T # {}
  PROVE  \E x \in T : \A y \in T : x <= y
<1>1. IsWellFoundedOn(Below, Nat) BY NatLessThanWellFounded DEF OpToRel, Below
<1>2. PICK x \in T : \A y \in T : <<y, x>> \notin Below BY <1>1, WFMin
<1>3. ASSUME NEW y \in T PROVE x <= y
  <2>1. <<y, x>> \in Nat \X Nat OBVIOUS
  <2>2. ~(y < x) BY <1>2, <2>1 DEF Below
  <2>3. QED BY <2>2
<1>4. QED BY <1>3

-----------------------------------------------------------------------------
(* The calendar. *)

LEMMA MonthLengths == \A m \in Nat : MonthLength(m) \in 28..31
BY DEF MonthLength

LEMMA LeapStep ==
  \A y \in Nat : LeapsUpTo(y + 1) = LeapsUpTo(y) + (IF Leap(y + 1) THEN 1 ELSE 0)
BY DEF LeapsUpTo, Leap

LEMMA NextMonth ==
  \A m \in Nat :
    /\ m % 12 \in 0..11 /\ m \div 12 \in Nat
    /\ m % 12 # 11 => (m + 1) \div 12 = m \div 12 /\ (m + 1) % 12 = (m % 12) + 1
    /\ m % 12 = 11 => (m + 1) \div 12 = (m \div 12) + 1 /\ (m + 1) % 12 = 0
OBVIOUS

(* The first days of the months of a year that is no leap year. *)
FirstDays == <<0, 31, 59, 90, 120, 151, 181, 212, 243, 273, 304, 334>>

LEMMA FirstDaysOfMonths ==
  /\ \A r \in 0..11 : FirstDays[r + 1] \in 0..334
  /\ FirstDays[1] = 0 /\ FirstDays[12] = 334
  /\ \A r \in 0..10 : FirstDays[r + 2] = FirstDays[r + 1] +
        (IF r = 1 THEN 28 ELSE IF r \in {3, 5, 8, 10} THEN 30 ELSE 31)
<1>1. ASSUME NEW r \in 0..11 PROVE FirstDays[r + 1] \in 0..334
  <2>1. \/ r = 0 \/ r = 1 \/ r = 2 \/ r = 3 \/ r = 4 \/ r = 5
        \/ r = 6 \/ r = 7 \/ r = 8 \/ r = 9 \/ r = 10 \/ r = 11
    OBVIOUS
  <2>2. QED BY <2>1 DEF FirstDays
<1>2. ASSUME NEW r \in 0..10
      PROVE  FirstDays[r + 2] = FirstDays[r + 1] +
               (IF r = 1 THEN 28 ELSE IF r \in {3, 5, 8, 10} THEN 30 ELSE 31)
  <2>1. \/ r = 0 \/ r = 1 \/ r = 2 \/ r = 3 \/ r = 4 \/ r = 5
        \/ r = 6 \/ r = 7 \/ r = 8 \/ r = 9 \/ r = 10
    OBVIOUS
  <2>2. QED BY <2>1 DEF FirstDays
<1>3. QED BY <1>1, <1>2 DEF FirstDays

(* A month begins when the month before it has passed. *)
LEMMA MonthBegins ==
  ASSUME NEW m \in Nat
  PROVE  /\ DaysBefore(m) \in Nat
         /\ DaysBefore(m + 1) = DaysBefore(m) + MonthLength(m)
<1> DEFINE y == m \div 12
           r == m % 12
           passed == LeapsUpTo(2022 + y) - LeapsUpTo(2022)
<1>1. y \in Nat /\ r \in 0..11 BY NextMonth
<1>2. LeapsUpTo(2022 + y + 1) = LeapsUpTo(2022 + y) + (IF Leap(2023 + y) THEN 1 ELSE 0)
  BY <1>1, LeapStep
<1>3. LeapsUpTo(2022 + y) \in Nat /\ LeapsUpTo(2022) \in Nat /\ LeapsUpTo(2022 + y) >= LeapsUpTo(2022)
  BY <1>1 DEF LeapsUpTo
<1>4. DaysBefore(m) = 365 * y + passed + FirstDays[r + 1]
                        + (IF r > 1 /\ Leap(2023 + y) THEN 1 ELSE 0)
  BY <1>1, <1>3, FirstDaysOfMonths DEF DaysBefore, FirstDays
<1>5. DaysBefore(m) \in Nat
  BY <1>1, <1>3, <1>4, FirstDaysOfMonths
<1>6. MonthLength(m) = IF r = 1 THEN IF Leap(2023 + y) THEN 29 ELSE 28
                       ELSE IF r \in {3, 5, 8, 10} THEN 30 ELSE 31
  BY <1>1 DEF MonthLength
<1>7. CASE r = 11
  <2>1. (m + 1) \div 12 = y + 1 /\ (m + 1) % 12 = 0 BY <1>7, NextMonth
  <2>2. DaysBefore(m + 1) = 365 * (y + 1) + (LeapsUpTo(2022 + (y + 1)) - LeapsUpTo(2022)) + FirstDays[1]
    BY <1>1, <1>2, <1>3, <2>1, FirstDaysOfMonths DEF DaysBefore, FirstDays
  <2>3. 2022 + (y + 1) = 2022 + y + 1 BY <1>1
  <2>4. QED BY <1>1, <1>2, <1>3, <1>4, <1>6, <1>7, <2>2, <2>3, FirstDaysOfMonths, <1>5
<1>8. CASE r # 11
  <2>1. (m + 1) \div 12 = y /\ (m + 1) % 12 = r + 1 BY <1>8, NextMonth
  <2>2. DaysBefore(m + 1) = 365 * y + passed + FirstDays[r + 2]
                              + (IF r + 1 > 1 /\ Leap(2023 + y) THEN 1 ELSE 0)
    BY <1>1, <1>3, <1>8, <2>1, FirstDaysOfMonths DEF DaysBefore, FirstDays
  <2>3. r \in 0..10 BY <1>1, <1>8
  <2>4. FirstDays[r + 1] \in Nat /\ FirstDays[r + 2] = FirstDays[r + 1] +
          (IF r = 1 THEN 28 ELSE IF r \in {3, 5, 8, 10} THEN 30 ELSE 31)
    BY <1>1, <2>3, FirstDaysOfMonths
  <2> HIDE DEF y, r
  <2>5. passed \in Nat BY <1>3
  <2> HIDE DEF passed
  <2>6. QED BY <1>1, <1>4, <1>6, <2>2, <2>3, <2>4, <2>5, <1>5
<1>9. QED BY <1>5, <1>7, <1>8

(* Months have 28 days or more. *)
LEMMA MonthsPass ==
  ASSUME NEW m \in Nat, NEW n \in Nat
  PROVE  DaysBefore(m + n) >= DaysBefore(m) + 28 * n
<1> DEFINE T == {k \in Nat : ~(DaysBefore(m + k) >= DaysBefore(m) + 28 * k)}
<1>1. SUFFICES ASSUME T # {} PROVE FALSE OBVIOUS
<1>2. PICK k \in T : \A j \in T : k <= j BY <1>1, Least
<1>3. CASE k = 0
  <2>1. DaysBefore(m) \in Nat BY MonthBegins
  <2>2. m + k = m BY <1>3
  <2>3. QED BY <1>2, <1>3, <2>1, <2>2
<1>4. CASE k # 0
  <2>1. k - 1 \in Nat /\ k - 1 \notin T BY <1>2, <1>4
  <2>2. DaysBefore(m + (k - 1)) >= DaysBefore(m) + 28 * (k - 1) BY <2>1
  <2>3. DaysBefore(m + k) = DaysBefore(m + (k - 1)) + MonthLength(m + (k - 1))
    <3>1. m + (k - 1) \in Nat /\ (m + (k - 1)) + 1 = m + k BY <2>1
    <3>2. QED BY <3>1, MonthBegins
  <2>4. MonthLength(m + (k - 1)) \in 28..31 BY <2>1, MonthLengths
  <2>5. DaysBefore(m) \in Nat /\ DaysBefore(m + (k - 1)) \in Nat BY <2>1, MonthBegins
  <2>6. QED BY <1>2, <2>1, <2>2, <2>3, <2>4, <2>5
<1>5. QED BY <1>2, <1>3, <1>4

LEMMA CalendarDate ==
  ASSUME NEW d \in Calendar
  PROVE  /\ d.month \in Nat /\ d.day \in 1..31 /\ d.day <= MonthLength(d.month)
         /\ d = [month |-> d.month, day |-> d.day]
         /\ Ordinal(d) = DaysBefore(d.month) + d.day /\ Ordinal(d) \in Nat
<1>1. d.month \in Nat /\ d.day \in 1..31 BY DEF Calendar
<1>2. DaysBefore(d.month) \in Nat BY <1>1, MonthBegins
<1>3. QED BY <1>1, <1>2 DEF Calendar, Ordinal

(* Adding days gives a date, and the one that many days later. *)
THEOREM AddDaysIsExact ==
  ASSUME NEW d \in Calendar, NEW n \in Nat \ {0}
  PROVE  /\ AddDays(d, n) \in Calendar
         /\ Ordinal(AddDays(d, n)) = Ordinal(d) + n
<1> DEFINE t == Ordinal(d) + n
           far == n \div 28 + 1
           T == {k \in Nat : t <= DaysBefore(d.month + k + 1)}
           Within(m) == DaysBefore(m) < t /\ t <= DaysBefore(m + 1)
<1>1. d.month \in Nat /\ d.day \in 1..31 /\ d.day <= MonthLength(d.month)
      /\ Ordinal(d) = DaysBefore(d.month) + d.day
  BY CalendarDate
<1>2. far \in Nat /\ n <= 28 * far OBVIOUS
<1>3. DaysBefore(d.month) \in Nat /\ DaysBefore(d.month + 1) = DaysBefore(d.month) + MonthLength(d.month)
  BY <1>1, MonthBegins
<1>4. t \in Nat BY <1>1, <1>3
<1>5. far \in T
  <2>1. DaysBefore((d.month + 1) + far) >= DaysBefore(d.month + 1) + 28 * far
    BY <1>1, <1>2, MonthsPass
  <2>2. (d.month + 1) + far = d.month + far + 1 BY <1>1, <1>2
  <2>3. MonthLength(d.month) \in 28..31 BY <1>1, MonthLengths
  <2>4. DaysBefore(d.month + far + 1) \in Nat BY <1>1, <1>2, MonthBegins
  <2>5. QED BY <1>1, <1>2, <1>3, <2>1, <2>2, <2>3, <2>4
<1>6. PICK k \in T : \A j \in T : k <= j BY <1>5, Least
<1>7. k \in Nat /\ k <= far BY <1>5, <1>6
<1>8. DaysBefore(d.month + k) < t
  <2>1. CASE k = 0
    <3>1. d.month + k = d.month BY <1>1, <2>1
    <3>2. QED BY <1>1, <1>3, <3>1
  <2>2. CASE k # 0
    <3>1. k - 1 \in Nat /\ k - 1 \notin T BY <1>6, <1>7, <2>2
    <3>2. d.month + (k - 1) + 1 = d.month + k BY <1>1, <1>7
    <3>3. DaysBefore(d.month + k) \in Nat BY <1>1, <1>7, MonthBegins
    <3>4. QED BY <1>4, <3>1, <3>2, <3>3
  <2>3. QED BY <2>1, <2>2
<1>9. Within(d.month + k) BY <1>6, <1>8
<1>10. d.month + k \in d.month..(d.month + n \div 28 + 1) BY <1>1, <1>7
<1> DEFINE m == CHOOSE x \in d.month..(d.month + n \div 28 + 1) : DaysBefore(x) < t /\ t <= DaysBefore(x + 1)
<1>11. m \in d.month..(d.month + n \div 28 + 1) /\ Within(m) BY <1>9, <1>10
<1>12. m \in Nat BY <1>1, <1>11
<1>13. AddDays(d, n) = [month |-> m, day |-> t - DaysBefore(m)] BY DEF AddDays
<1>14. /\ DaysBefore(m) \in Nat /\ DaysBefore(m + 1) = DaysBefore(m) + MonthLength(m)
       /\ MonthLength(m) \in 28..31
  BY <1>12, MonthBegins, MonthLengths
<1>15. t - DaysBefore(m) \in 1..31 /\ t - DaysBefore(m) <= MonthLength(m)
  BY <1>4, <1>11, <1>14
<1> HIDE DEF m, t
<1>16. AddDays(d, n) \in Calendar BY <1>12, <1>13, <1>15 DEF Calendar
<1>17. Ordinal(AddDays(d, n)) = t BY <1>4, <1>13, <1>14, <1>15 DEF Ordinal
<1>18. QED BY <1>16, <1>17 DEF t

(* Adding months gives a date of that month, not later in it than before. *)
LEMMA AddMonthsIsDate ==
  ASSUME NEW d \in Calendar, NEW n \in Nat
  PROVE  /\ AddMonths(d, n) \in Calendar
         /\ AddMonths(d, n).month = d.month + n
         /\ AddMonths(d, n).day = AtMost(d.day, MonthLength(d.month + n))
<1>1. d.month \in Nat /\ d.day \in 1..31 BY CalendarDate
<1>2. MonthLength(d.month + n) \in 28..31 BY <1>1, MonthLengths
<1>3. QED BY <1>1, <1>2 DEF AddMonths, AtMost, Calendar

-----------------------------------------------------------------------------
(* The rule. *)

(* The months between two dates, and the days. *)
Gap(a) == IF a.rule.freq = "YEARLY" THEN 12 * a.rule.interval ELSE a.rule.interval
Stride(a) == IF a.rule.freq = "WEEKLY" THEN 7 * a.rule.interval ELSE a.rule.interval

InDays(a) == a.rule.freq \in {"DAILY", "WEEKLY"}
InMonths(a) == a.rule.freq \in {"MONTHLY", "YEARLY"}

(* The days of the month the series met so far allows. *)
Passed(a, n) == {a.start.day} \cup {MonthLength(a.start.month + k * Gap(a)) : k \in 1..n}
Shortest(a, n) == CHOOSE x \in Passed(a, n) : \A y \in Passed(a, n) : x <= y

(* The nth date of the series, as RuleDate has its time. *)
IsNth(a, d, n) ==
  /\ d \in Calendar
  /\ Ordinal(d) = RuleDate(a, n)
  /\ InMonths(a) => d.month = a.start.month + n * Gap(a) /\ d.day = Shortest(a, n)

LEMMA AskParts ==
  ASSUME NEW a \in Ask
  PROVE  /\ a.start \in Calendar /\ a.rule.interval \in Nat \ {0}
         /\ a.rule.count \in Nat /\ a.rule.until \in Nat /\ a.rule.freq \in Freqs
         /\ Gap(a) \in Nat \ {0} /\ Stride(a) \in Nat \ {0}
<1>1. /\ a.start \in Starts /\ a.rule \in Rules BY DEF Ask
<1>2. /\ a.rule.interval \in Intervals /\ a.rule.count \in Counts
      /\ a.rule.until \in Untils /\ a.rule.freq \in Freqs
  BY <1>1 DEF Rules
<1>3. a.rule.interval \in Nat \ {0} BY <1>2, SeriesAssumption
<1>4. a.start \in Calendar /\ a.rule.count \in Nat /\ a.rule.until \in Nat BY <1>1, <1>2, SeriesAssumption
<1>5. Gap(a) \in Nat \ {0} /\ Stride(a) \in Nat \ {0} BY <1>3 DEF Gap, Stride
<1>6. QED BY <1>2, <1>3, <1>4, <1>5

LEMMA Multiples ==
  \A k, g \in Nat : k * g \in Nat /\ 0 * g = 0 /\ (k + 1) * g = k * g + g
OBVIOUS

LEMMA MultiplesGrow ==
  ASSUME NEW g \in Nat \ {0}, NEW n \in Nat, NEW k \in Nat, n < k
  PROVE  n * g < k * g
<1>1. k - n \in Nat \ {0} OBVIOUS
<1>2. k * g = n * g + (k - n) * g OBVIOUS
<1>3. (k - n) * g > 0 BY <1>1
<1>4. QED BY <1>2, <1>3

LEMMA RuleDates ==
  ASSUME NEW a \in Ask, NEW n \in Nat
  PROVE  /\ n = 0 => RuleDate(a, n) = Ordinal(a.start)
         /\ InDays(a) => RuleDate(a, n) = Ordinal(a.start) + n * Stride(a)
         /\ InMonths(a) /\ n > 0 =>
              RuleDate(a, n) = DaysBefore(a.start.month + n * Gap(a)) + Shortest(a, n)
<1>1. CASE n = 0
  <2>1. Ordinal(a.start) \in Nat BY AskParts, CalendarDate
  <2>2. n * Stride(a) = 0 BY <1>1, AskParts, Multiples
  <2>3. QED BY <1>1, <2>1, <2>2 DEF RuleDate
<1>2. CASE n # 0
  BY <1>2 DEF RuleDate, InDays, InMonths, Stride, Gap, Shortest, Passed
<1>3. QED BY <1>1, <1>2

(* The shortest of the months passed is among them. *)
LEMMA ShortestIsLeast ==
  ASSUME NEW a \in Ask, NEW n \in Nat
  PROVE  /\ Passed(a, n) \subseteq 1..31
         /\ Shortest(a, n) \in Passed(a, n)
         /\ \A y \in Passed(a, n) : Shortest(a, n) <= y
<1>1. a.start.month \in Nat /\ a.start.day \in 1..31 BY AskParts, CalendarDate
<1>2. ASSUME NEW k \in 1..n PROVE MonthLength(a.start.month + k * Gap(a)) \in 1..31
  <2>1. a.start.month + k * Gap(a) \in Nat BY <1>1, AskParts, Multiples
  <2>2. QED BY <2>1, MonthLengths
<1>3. Passed(a, n) \subseteq 1..31 BY <1>1, <1>2 DEF Passed
<1>4. Passed(a, n) # {} BY DEF Passed
<1>5. \E x \in Passed(a, n) : \A y \in Passed(a, n) : x <= y BY <1>3, <1>4, Least
<1>6. QED BY <1>3, <1>5 DEF Shortest

LEMMA ShortestNext ==
  ASSUME NEW a \in Ask, NEW n \in Nat
  PROVE  /\ Shortest(a, 0) = a.start.day
         /\ Shortest(a, n + 1) = AtMost(Shortest(a, n), MonthLength(a.start.month + (n + 1) * Gap(a)))
<1> DEFINE len == MonthLength(a.start.month + (n + 1) * Gap(a))
<1>1. Passed(a, 0) = {a.start.day} BY DEF Passed
<1>2. Shortest(a, 0) = a.start.day BY <1>1, ShortestIsLeast
<1>3. Passed(a, n + 1) = Passed(a, n) \cup {len}
  <2>1. 1..(n + 1) = (1..n) \cup {n + 1} OBVIOUS
  <2>2. QED BY <2>1 DEF Passed
<1>4. /\ Shortest(a, n) \in Passed(a, n) /\ \A y \in Passed(a, n) : Shortest(a, n) <= y
      /\ Passed(a, n) \subseteq 1..31
  BY ShortestIsLeast
<1>5. /\ Shortest(a, n + 1) \in Passed(a, n + 1)
      /\ \A y \in Passed(a, n + 1) : Shortest(a, n + 1) <= y
      /\ Passed(a, n + 1) \subseteq 1..31
  BY ShortestIsLeast
<1> HIDE DEF len
<1>6. len \in 1..31 BY <1>3, <1>5
<1>7. Shortest(a, n + 1) = AtMost(Shortest(a, n), len) BY <1>3, <1>4, <1>5, <1>6 DEF AtMost
<1>8. QED BY <1>2, <1>7 DEF len

(* From one date to the next, as the loop steps, is from n to n + 1. *)
LEMMA NextIsNth ==
  ASSUME NEW a \in Ask, NEW d, NEW n \in Nat, IsNth(a, d, n), a.rule.freq # "NONE"
  PROVE  IsNth(a, NextDate(d, a.rule), n + 1)
<1> DEFINE e == NextDate(d, a.rule)
<1>1. d \in Calendar /\ Ordinal(d) = RuleDate(a, n) BY DEF IsNth
<1>2. Ordinal(a.start) \in Nat /\ Ordinal(d) \in Nat BY <1>1, AskParts, CalendarDate
<1>3. (n + 1) * Gap(a) = n * Gap(a) + Gap(a) /\ n * Gap(a) \in Nat BY AskParts, Multiples
<1>4. (n + 1) * Stride(a) = n * Stride(a) + Stride(a) /\ n * Stride(a) \in Nat BY AskParts, Multiples
<1>5. CASE InDays(a)
  <2>1. e = AddDays(d, Stride(a)) BY <1>5 DEF NextDate, Stride, InDays
  <2>2. e \in Calendar /\ Ordinal(e) = Ordinal(d) + Stride(a) BY <1>1, <2>1, AskParts, AddDaysIsExact
  <2>3. Ordinal(d) = Ordinal(a.start) + n * Stride(a) BY <1>1, <1>5, RuleDates
  <2>4. RuleDate(a, n + 1) = Ordinal(a.start) + (n + 1) * Stride(a) BY <1>5, RuleDates
  <2>5. Ordinal(e) = RuleDate(a, n + 1) BY <1>2, <1>4, <2>2, <2>3, <2>4, AskParts
  <2>6. ~InMonths(a) BY <1>5 DEF InDays, InMonths
  <2>7. QED BY <2>2, <2>5, <2>6 DEF IsNth
<1>6. CASE InMonths(a)
  <2>1. e = AddMonths(d, Gap(a)) BY <1>6 DEF NextDate, Gap, InMonths
  <2>2. d.month = a.start.month + n * Gap(a) /\ d.day = Shortest(a, n) BY <1>6 DEF IsNth
  <2>3. e \in Calendar /\ e.month = d.month + Gap(a) /\ e.day = AtMost(d.day, MonthLength(d.month + Gap(a)))
    BY <1>1, <2>1, AskParts, AddMonthsIsDate
  <2>4. a.start.month \in Nat BY AskParts, CalendarDate
  <2>5. e.month = a.start.month + (n + 1) * Gap(a) BY <1>3, <2>2, <2>3, <2>4, AskParts
  <2>6. e.day = Shortest(a, n + 1) BY <2>2, <2>3, <2>5, ShortestNext
  <2>7. RuleDate(a, n + 1) = DaysBefore(e.month) + e.day BY <1>6, <2>5, <2>6, RuleDates
  <2>8. Ordinal(e) = RuleDate(a, n + 1) BY <2>3, <2>7, CalendarDate
  <2>9. QED BY <2>3, <2>5, <2>6, <2>8 DEF IsNth
<1>7. QED BY <1>5, <1>6, AskParts DEF InDays, InMonths, Freqs

(* After the first one the dates of a rule are in order. *)
LEMMA RuleGrows ==
  ASSUME NEW a \in Ask, a.rule.freq # "NONE",
         NEW n \in Nat \ {0}, NEW k \in Nat, n <= k
  PROVE  RuleDate(a, n) <= RuleDate(a, k) /\ RuleDate(a, n) \in Nat
<1>1. Ordinal(a.start) \in Nat /\ a.start.month \in Nat BY AskParts, CalendarDate
<1>2. CASE InDays(a)
  <2>1. RuleDate(a, n) = Ordinal(a.start) + n * Stride(a) BY <1>2, RuleDates
  <2>2. RuleDate(a, k) = Ordinal(a.start) + k * Stride(a) BY <1>2, RuleDates
  <2>3. n * Stride(a) \in Nat /\ k * Stride(a) \in Nat BY AskParts, Multiples
  <2>4. n * Stride(a) <= k * Stride(a)
    <3>1. CASE n = k BY <3>1, <2>3
    <3>2. CASE n < k BY <3>2, <2>3, AskParts, MultiplesGrow
    <3>3. QED BY <3>1, <3>2
  <2>5. QED BY <1>1, <2>1, <2>2, <2>3, <2>4
<1>3. CASE InMonths(a)
  <2> DEFINE m == a.start.month + n * Gap(a)
             l == a.start.month + k * Gap(a)
  <2>1. RuleDate(a, n) = DaysBefore(m) + Shortest(a, n) BY <1>3, RuleDates
  <2>2. RuleDate(a, k) = DaysBefore(l) + Shortest(a, k) BY <1>3, RuleDates
  <2>3. m \in Nat /\ l \in Nat BY <1>1, AskParts, Multiples
  <2>4. DaysBefore(m) \in Nat /\ DaysBefore(l) \in Nat
        /\ DaysBefore(m + 1) = DaysBefore(m) + MonthLength(m)
    BY <2>3, MonthBegins
  <2>5. MonthLength(m) \in Passed(a, n) BY DEF Passed
  <2>6. Shortest(a, n) \in 1..31 /\ Shortest(a, k) \in 1..31 BY ShortestIsLeast
  <2>7. Shortest(a, n) <= MonthLength(m) BY <2>5, ShortestIsLeast
  <2>8. CASE n = k BY <2>1, <2>4, <2>6, <2>8
  <2>9. CASE n < k
    <3>1. m < l
      <4>1. n * Gap(a) < k * Gap(a) BY <2>9, AskParts, MultiplesGrow
      <4>2. n * Gap(a) \in Nat /\ k * Gap(a) \in Nat BY AskParts, Multiples
      <4>3. QED BY <1>1, <4>1, <4>2
    <3>2. l - (m + 1) \in Nat /\ (m + 1) + (l - (m + 1)) = l BY <2>3, <3>1
    <3>3. DaysBefore(l) >= DaysBefore(m + 1) + 28 * (l - (m + 1)) BY <2>3, <3>2, MonthsPass
    <3>4. MonthLength(m) \in 28..31 BY <2>3, MonthLengths
    <3> HIDE DEF m, l
    <3>5. QED BY <2>1, <2>2, <2>3, <2>4, <2>6, <2>7, <3>2, <3>3, <3>4
  <2>10. QED BY <2>8, <2>9
<1>4. QED BY <1>2, <1>3, AskParts DEF InDays, InMonths, Freqs

-----------------------------------------------------------------------------
(* schedule(). *)

(* What is made is the first dates of the rule, in their order, and the    *)
(* next one is asked for while the loop goes on.                           *)
SeriesInv ==
  /\ SeriesTypeOK
  /\ doing = "idle" => series = <<>>
  /\ \A i \in DOMAIN series : i - 1 \in Wanted(ask) /\ IsNth(ask, series[i], i - 1)
  /\ doing = "create" => series = <<>> \/ Len(series) \in Wanted(ask)
  /\ doing = "done" => Wanted(ask) = 0..(Len(series) - 1)
  /\ invited => doing = "done"
  /\ attempt < MaxAttempts \/ doing = "failed"

LEMMA WantedParts ==
  ASSUME NEW a \in Ask, NEW n \in Nat \ {0}
  PROVE  n \in Wanted(a) <=> /\ a.rule.freq # "NONE" /\ n < MaxOccurrences
                             /\ a.rule.count = 0 \/ n < a.rule.count
                             /\ a.rule.until = 0 \/ RuleDate(a, n) <= a.rule.until
BY SeriesAssumption DEF Wanted

(* The dates asked for are a beginning of the rule's. *)
LEMMA WantedIsPrefix ==
  ASSUME NEW a \in Ask, NEW n \in Nat \ {0}, NEW k \in Nat, n <= k, k \in Wanted(a)
  PROVE  n \in Wanted(a)
<1>1. k \in Nat \ {0} OBVIOUS
<1>2. /\ a.rule.freq # "NONE" /\ k < MaxOccurrences
      /\ a.rule.count = 0 \/ k < a.rule.count
      /\ a.rule.until = 0 \/ RuleDate(a, k) <= a.rule.until
  BY <1>1, WantedParts
<1>3. RuleDate(a, n) <= RuleDate(a, k) /\ RuleDate(a, n) \in Nat /\ RuleDate(a, k) \in Nat
  BY <1>1, <1>2, RuleGrows
<1>4. a.rule.count \in Nat /\ a.rule.until \in Nat BY AskParts
<1>5. n < MaxOccurrences BY <1>2, SeriesAssumption
<1>6. a.rule.count = 0 \/ n < a.rule.count BY <1>2, <1>4
<1>7. a.rule.until = 0 \/ RuleDate(a, n) <= a.rule.until BY <1>2, <1>3, <1>4
<1>8. QED BY <1>2, <1>5, <1>6, <1>7, WantedParts

LEMMA SeriesStart == SeriesInit => SeriesInv
<1> SUFFICES ASSUME SeriesInit PROVE SeriesInv OBVIOUS
<1>1. \E a \in Ask : a.rule.freq = "NONE"
  <2>1. PICK s \in Starts, i \in Intervals, c \in Counts, u \in Untils : TRUE BY SeriesAssumption
  <2>2. [start |-> s, rule |-> [freq |-> "NONE", interval |-> i, count |-> c, until |-> u]] \in Ask
    BY DEF Ask, Rules, Freqs
  <2>3. QED BY <2>2
<1>2. ask \in Ask BY <1>1 DEF SeriesInit
<1>3. series = <<>> /\ DOMAIN series = {} /\ Len(series) = 0 /\ series \in Seq(Calendar) BY DEF SeriesInit
<1>4. /\ attempt = 0 /\ doing = "idle" /\ invited = FALSE
      /\ 0 < MaxAttempts /\ 0 \in 0..MaxAttempts /\ 0 <= MaxOccurrences
  BY SeriesAssumption DEF SeriesInit
<1>5. SeriesTypeOK BY <1>2, <1>3, <1>4 DEF SeriesTypeOK
<1>6. QED BY <1>3, <1>4, <1>5 DEF SeriesInv

LEMMA NextOfSeriesIsNth ==
  ASSUME SeriesInv, doing = "create"
  PROVE  /\ Len(series) \in Nat /\ Len(series) \in Wanted(ask) /\ Len(series) < MaxOccurrences
         /\ IsNth(ask, NextOfSeries, Len(series))
         /\ series # <<>> => ask.rule.freq # "NONE"
<1>1. ask \in Ask /\ series \in Seq(Calendar) BY DEF SeriesInv, SeriesTypeOK
<1>2. Len(series) \in Nat /\ DOMAIN series = 1..Len(series) BY <1>1
<1>3. CASE series = <<>>
  <2>1. Len(series) = 0 BY <1>3
  <2>2. NextOfSeries = ask.start BY <1>3 DEF NextOfSeries
  <2>3. ask.start \in Calendar BY <1>1, AskParts
  <2>4. ask.start.month \in Nat BY <2>3, CalendarDate
  <2>5. ask.start.month + 0 * Gap(ask) = ask.start.month BY <1>1, <2>4, AskParts, Multiples
  <2>6. RuleDate(ask, 0) = Ordinal(ask.start) BY <1>1, RuleDates
  <2>7. Shortest(ask, 0) = ask.start.day BY <1>1, ShortestNext
  <2>8. IsNth(ask, ask.start, 0) BY <2>3, <2>5, <2>6, <2>7 DEF IsNth
  <2>9. 0 \in Wanted(ask) BY DEF Wanted
  <2>10. QED BY <1>3, <2>1, <2>2, <2>8, <2>9, SeriesAssumption
<1>4. CASE series # <<>>
  <2> DEFINE n == Len(series)
  <2>1. n \in Nat \ {0} BY <1>1, <1>2, <1>4
  <2>2. n \in Wanted(ask) BY <1>4 DEF SeriesInv
  <2>3. ask.rule.freq # "NONE" /\ n < MaxOccurrences BY <1>1, <2>1, <2>2, WantedParts
  <2>4. n \in DOMAIN series BY <1>2, <2>1
  <2>5. IsNth(ask, series[n], n - 1) BY <2>4 DEF SeriesInv
  <2>6. NextOfSeries = NextDate(series[n], ask.rule) BY <1>4 DEF NextOfSeries
  <2>7. n - 1 \in Nat /\ (n - 1) + 1 = n BY <2>1
  <2>8. IsNth(ask, NextOfSeries, n)
    <3>1. IsNth(ask, NextDate(series[n], ask.rule), (n - 1) + 1) BY <1>1, <2>3, <2>5, <2>7, NextIsNth
    <3>2. QED BY <2>6, <2>7, <3>1
  <2>9. QED BY <1>2, <1>4, <2>2, <2>3, <2>8
<1>5. QED BY <1>3, <1>4

LEMMA CreateKeeps ==
  ASSUME SeriesInv, CreateOccurrence
  PROVE  SeriesInv'
<1> DEFINE n == Len(series)
           longer == Append(series, NextOfSeries)
           next == NextDate(NextOfSeries, ask.rule)
           more == ask.rule.freq # "NONE" /\ Goes(next, ask.rule, Len(longer))
<1>1. /\ doing = "create" /\ series' = longer /\ attempt' = 0
      /\ doing' = (IF more THEN "create" ELSE "done")
      /\ ask' = ask /\ invited' = invited
  BY DEF CreateOccurrence
<1>2. /\ n \in Nat /\ n \in Wanted(ask) /\ n < MaxOccurrences
      /\ IsNth(ask, NextOfSeries, n)
  BY <1>1, NextOfSeriesIsNth
<1>3. /\ ask \in Ask /\ series \in Seq(Calendar) /\ ~invited
      /\ \A i \in DOMAIN series : i - 1 \in Wanted(ask) /\ IsNth(ask, series[i], i - 1)
  BY <1>1 DEF SeriesInv, SeriesTypeOK
<1>4. NextOfSeries \in Calendar BY <1>2 DEF IsNth
<1>5. /\ longer \in Seq(Calendar) /\ Len(longer) = n + 1 /\ DOMAIN longer = 1..(n + 1)
      /\ \A i \in 1..n : longer[i] = series[i]
      /\ longer[n + 1] = NextOfSeries /\ longer # <<>>
  <2>1. ASSUME NEW d \in Calendar, NEW q \in Seq(Calendar)
        PROVE  /\ Append(q, d) \in Seq(Calendar) /\ Len(Append(q, d)) = Len(q) + 1
               /\ DOMAIN Append(q, d) = 1..(Len(q) + 1)
               /\ \A i \in 1..Len(q) : Append(q, d)[i] = q[i]
               /\ Append(q, d)[Len(q) + 1] = d /\ Append(q, d) # <<>>
    OBVIOUS
  <2>2. QED BY <1>3, <1>4, <2>1
<1>6. DOMAIN series = 1..n BY <1>3
<1>7. SeriesTypeOK'
  <2>1. doing' \in {"idle", "create", "done", "failed"} BY <1>1
  <2>2. 0 \in 0..MaxAttempts /\ MaxOccurrences \in Nat BY SeriesAssumption
  <2>3. invited' \in BOOLEAN BY <1>1 DEF SeriesInv, SeriesTypeOK
  <2> HIDE DEF longer, more
  <2>4. series' \in Seq(Calendar) /\ Len(series') <= MaxOccurrences
    BY <1>1, <1>2, <1>5, <2>2
  <2>5. QED BY <1>1, <1>3, <2>1, <2>2, <2>3, <2>4 DEF SeriesTypeOK
<1>8. ASSUME NEW i \in DOMAIN longer PROVE i - 1 \in Wanted(ask) /\ IsNth(ask, longer[i], i - 1)
  <2>1. CASE i \in 1..n BY <1>3, <1>5, <1>6, <2>1
  <2>2. CASE i = n + 1
    <3>1. i - 1 = n BY <1>2, <2>2
    <3>2. QED BY <1>2, <1>5, <2>2, <3>1
  <2>3. QED BY <1>2, <1>5, <2>1, <2>2
<1>9. ask.rule.freq # "NONE" =>
        Ordinal(next) = RuleDate(ask, n + 1)
  <2>1. ask.rule.freq # "NONE" => IsNth(ask, next, n + 1) BY <1>2, <1>3, NextIsNth
  <2>2. QED BY <2>1 DEF IsNth
<1>10. more <=> n + 1 \in Wanted(ask)
  <2>1. n + 1 \in Nat \ {0} BY <1>2
  <2>2. QED BY <1>3, <1>5, <1>9, <2>1, WantedParts DEF Goes
<1>11. ASSUME ~more PROVE Wanted(ask) = 0..n
  <2>1. n + 1 \notin Wanted(ask) BY <1>10, <1>11
  <2>2. ASSUME NEW k \in Wanted(ask) PROVE k \in 0..n
    <3>1. k \in Nat BY SeriesAssumption DEF Wanted
    <3>2. ~(n + 1 <= k) BY <1>2, <1>3, <2>1, <3>1, WantedIsPrefix
    <3>3. QED BY <1>2, <3>1, <3>2
  <2>3. ASSUME NEW k \in 0..n PROVE k \in Wanted(ask)
    <3>1. k + 1 \in DOMAIN longer /\ (k + 1) - 1 = k BY <1>2, <1>5
    <3>2. QED BY <1>8, <3>1
  <2>4. QED BY <2>2, <2>3
<1> HIDE DEF longer, more, next
<1>12. Len(longer) - 1 = n BY <1>2, <1>5
<1>13. QED BY <1>1, <1>2, <1>3, <1>5, <1>7, <1>8, <1>10, <1>11, <1>12, SeriesAssumption DEF SeriesInv

LEMMA SeriesStep == SeriesInv /\ [SeriesNext]_seriesVars => SeriesInv'
<1> SUFFICES ASSUME SeriesInv, [SeriesNext]_seriesVars PROVE SeriesInv' OBVIOUS
<1>1. CASE Schedule
  <2>1. /\ doing = "idle" /\ series = <<>> /\ series' = series /\ doing' = "create"
        /\ attempt' = attempt /\ invited' = invited /\ ask' \in Ask /\ ~invited
    BY <1>1 DEF Schedule, SeriesInv
  <2>2. DOMAIN series = {} BY <2>1
  <2>3. QED BY <2>1, <2>2 DEF SeriesInv, SeriesTypeOK
<1>2. CASE CreateOccurrence BY <1>2, CreateKeeps
<1>3. CASE Collide
  <2>1. /\ doing = "create" /\ attempt' = attempt + 1 /\ attempt \in 0..MaxAttempts /\ attempt < MaxAttempts
        /\ doing' = (IF attempt' < MaxAttempts THEN "create" ELSE "failed")
        /\ ask' = ask /\ series' = series /\ invited' = invited
    BY <1>3 DEF Collide, SeriesInv, SeriesTypeOK
  <2>2. QED BY <2>1, SeriesAssumption DEF SeriesInv, SeriesTypeOK
<1>4. CASE FailOccurrence BY <1>4 DEF FailOccurrence, SeriesInv, SeriesTypeOK
<1>5. CASE DispatchInvites BY <1>5 DEF DispatchInvites, SeriesInv, SeriesTypeOK
<1>6. CASE UNCHANGED seriesVars BY <1>6 DEF seriesVars, SeriesInv, SeriesTypeOK
<1>7. QED BY <1>1, <1>2, <1>3, <1>4, <1>5, <1>6 DEF SeriesNext

(* Whatever the rule: what schedule() has done is the beginning of the     *)
(* rule's series, all of it when it is done, and nobody is invited before. *)
THEOREM SeriesFollows == SeriesSpec => []SeriesFollowsRule
<1>1. SeriesInv => SeriesFollowsRule BY DEF SeriesInv, SeriesFollowsRule, IsNth
<1>2. QED BY <1>1, SeriesStart, SeriesStep, PTL DEF SeriesSpec

(* The variables of schedule() hold what they are declared to hold. *)
THEOREM SeriesTyped == SeriesSpec => []SeriesTypeOK
<1>1. SeriesInv => SeriesTypeOK BY DEF SeriesInv
<1>2. QED BY <1>1, SeriesStart, SeriesStep, PTL DEF SeriesSpec

-----------------------------------------------------------------------------
(* The counter of Presence has bounds. *)

(* The sockets whose connection ended, well or not, and those whose        *)
(* disconnection was taken off the counter, or never will be.              *)
Begun == {s \in Sockets : con[s] \in {"up", "failed"}}
Over  == {s \in Sockets : dis[s].pc \in {"erase", "over"}}

Span    == -Cardinality(Sockets)..Cardinality(Sockets)
Spanned == count \in Int /\ count <= Cardinality(Begun) /\ -Cardinality(Over) <= count

(* Each socket adds one to the counter at most once, and takes one off it  *)
(* at most once.                                                           *)
SpanInv ==
  /\ CountInv /\ Spanned
  /\ inConv \subseteq live
  /\ \A s \in Sockets : dis[s].read \in Span
  /\ look \in [Looks -> [pc: LookPCs, found: SUBSET Sockets]]

LEMMA SpanFinite ==
  /\ Cardinality(Sockets) \in Nat
  /\ Cardinality(Begun) \in 0..Cardinality(Sockets) /\ Cardinality(Over) \in 0..Cardinality(Sockets)
  /\ Cardinality(Begun)' \in Nat /\ Cardinality(Over)' \in Nat
<1>1. IsFiniteSet(Sockets) BY PresenceAssumption
<1>2. /\ Begun \subseteq Sockets /\ Over \subseteq Sockets
      /\ Begun' \subseteq Sockets /\ Over' \subseteq Sockets
  BY DEF Begun, Over
<1>3. ASSUME NEW A, A \subseteq Sockets
      PROVE  IsFiniteSet(A) /\ Cardinality(A) \in 0..Cardinality(Sockets)
  <2>1. IsFiniteSet(A) /\ Cardinality(A) <= Cardinality(Sockets) BY <1>1, <1>3, FS_Subset
  <2>2. Cardinality(A) \in Nat /\ Cardinality(Sockets) \in Nat BY <1>1, <2>1, FS_CardinalityType
  <2>3. QED BY <2>1, <2>2
<1>4. Cardinality(Begun') \in Nat /\ Cardinality(Over') \in Nat BY <1>2, <1>3, FS_CardinalityType
<1>5. Cardinality(Sockets) \in Nat BY <1>1, FS_CardinalityType
<1>6. Cardinality(Begun)' = Cardinality(Begun') /\ Cardinality(Over)' = Cardinality(Over') OBVIOUS
<1>7. Cardinality(Begun) \in 0..Cardinality(Sockets) /\ Cardinality(Over) \in 0..Cardinality(Sockets)
  BY <1>2, <1>3
<1>8. QED BY <1>4, <1>5, <1>6, <1>7

(* The larger a set of sockets, the more there are of them. *)
LEMMA MoreSockets ==
  ASSUME NEW A, NEW B, A \subseteq B, B \subseteq Sockets
  PROVE  Cardinality(A) <= Cardinality(B)
BY PresenceAssumption, FS_Subset

LEMMA OneMoreSocket ==
  ASSUME NEW A, NEW B, A \subseteq B, B \subseteq Sockets, NEW s \in B, s \notin A
  PROVE  Cardinality(A) + 1 <= Cardinality(B)
<1>1. IsFiniteSet(B) BY PresenceAssumption, FS_Subset
<1>2. IsFiniteSet(B \ {s}) /\ Cardinality(B \ {s}) = Cardinality(B) - 1
  BY <1>1, FS_RemoveElement
<1>3. IsFiniteSet(A) /\ Cardinality(A) <= Cardinality(B \ {s}) BY <1>2, FS_Subset
<1>4. Cardinality(A) \in Nat /\ Cardinality(B) \in Nat BY <1>1, <1>3, FS_CardinalityType
<1>5. QED BY <1>2, <1>3, <1>4

LEMMA BegunGrows == CountInv /\ [PresenceNext]_presenceVars => Begun \subseteq Begun'
<1> SUFFICES ASSUME CountInv, [PresenceNext]_presenceVars PROVE Begun \subseteq Begun'
  OBVIOUS
<1>0. con \in [Sockets -> ConPCs] BY DEF CountInv, RoomsInv
<1>1. ASSUME UNCHANGED con PROVE Begun \subseteq Begun' BY <1>1 DEF Begun
<1>2. ASSUME NEW s \in Sockets, NEW pc, ConGoto(s, pc), con[s] \notin {"up", "failed"}
      PROVE  Begun \subseteq Begun'
  BY <1>0, <1>2 DEF ConGoto, Begun
<1>3. ASSUME NEW s \in Sockets, ConnectStep(s) PROVE Begun \subseteq Begun'
  <2>1. CASE OpenSocket(s) BY <1>2, <2>1 DEF OpenSocket
  <2>2. CASE JoinUser(s) BY <1>2, <2>2 DEF JoinUser
  <2>3. CASE ListConversations(s)
    <3>1. con[s] = "list" /\ ConGoto(s, IF conv = "none" THEN "count" ELSE "conv")
      BY <2>3 DEF ListConversations
    <3>2. QED BY <1>2, <3>1
  <2>4. CASE JoinListed(s) BY <1>2, <2>4 DEF JoinListed
  <2>5. CASE PresenceConnect(s) BY <1>2, <2>5 DEF PresenceConnect
  <2>6. CASE ConnectFails(s) BY <1>2, <2>6 DEF ConnectFails
  <2>7. QED BY <1>3, <2>1, <2>2, <2>3, <2>4, <2>5, <2>6 DEF ConnectStep
<1>4. ASSUME NEW s \in Sockets, DisconnectStep(s) \/ OnConversationNew(s) \/ OnJoin(s)
      PROVE  Begun \subseteq Begun'
  BY <1>1, <1>4 DEF DisconnectStep, CloseSocket, PresenceDisconnect, EraseCount,
                    OnConversationNew, OnJoin
<1>5. ASSUME NEW S \in SUBSET Sockets, ProcessStops(S) PROVE Begun \subseteq Begun'
  BY <1>5 DEF ProcessStops, Begun
<1>6. ASSUME NEW l \in Looks, LookStep(l) PROVE UNCHANGED con
  BY <1>6 DEF LookStep, ReadCount, FetchSockets, LogoutFinds, LogoutCloses, ForceOffline
<1>7. CASE MakeConversation \/ AnnounceConversation
  BY <1>1, <1>7 DEF MakeConversation, AnnounceConversation
<1>8. CASE UNCHANGED presenceVars BY <1>1, <1>8 DEF presenceVars
<1>9. QED BY <1>1, <1>3, <1>4, <1>5, <1>6, <1>7, <1>8 DEF PresenceNext

LEMMA OverGrows == CountInv /\ [PresenceNext]_presenceVars => Over \subseteq Over'
<1> SUFFICES ASSUME CountInv, [PresenceNext]_presenceVars PROVE Over \subseteq Over'
  OBVIOUS
<1>0. dis \in [Sockets -> DisState] BY DEF CountInv
<1>1. ASSUME UNCHANGED dis PROVE Over \subseteq Over' BY <1>1 DEF Over
<1>2. ASSUME NEW S \in SUBSET live, Disconnecting(S) PROVE Over \subseteq Over'
  BY <1>2 DEF Disconnecting, Over, CountInv, Ends
<1>3. ASSUME NEW s \in Sockets, ConnectStep(s) PROVE Over \subseteq Over'
  <2>1. CASE ConnectFails(s)
    <3>1. Disconnecting({s} \cap live) /\ {s} \cap live \subseteq live BY <2>1 DEF ConnectFails
    <3>2. QED BY <1>2, <3>1
  <2>2. QED
    BY <1>1, <1>3, <2>1
       DEF ConnectStep, OpenSocket, JoinUser, ListConversations, JoinListed, PresenceConnect
<1>4. ASSUME NEW s \in Sockets, DisconnectStep(s) PROVE Over \subseteq Over'
  <2>1. CASE CloseSocket(s) BY <1>2, <2>1 DEF CloseSocket
  <2>2. ASSUME dis'[s].pc \in {"erase", "over"}, \A t \in Sockets \ {s} : dis'[t] = dis[t]
        PROVE  Over \subseteq Over'
    BY <2>2 DEF Over
  <2>3. CASE PresenceDisconnect(s)
    <3>1. dis' = [dis EXCEPT ![s] = IF count <= 1 THEN [pc |-> "erase", read |-> count - 1]
                                     ELSE [pc |-> "over", read |-> 0]]
      BY <2>3 DEF PresenceDisconnect
    <3> DEFINE r == IF count <= 1 THEN [pc |-> "erase", read |-> count - 1]
                    ELSE [pc |-> "over", read |-> 0]
    <3>2. r.pc \in {"erase", "over"} /\ dis' = [dis EXCEPT ![s] = r] BY <3>1
    <3> HIDE DEF r
    <3>3. dis'[s] = r /\ \A t \in Sockets \ {s} : dis'[t] = dis[t] BY <1>0, <3>2
    <3>4. QED BY <2>2, <3>2, <3>3
  <2>4. CASE EraseCount(s)
    <3> DEFINE r == [pc |-> "over", read |-> 0]
    <3>1. r.pc \in {"erase", "over"} /\ dis' = [dis EXCEPT ![s] = r] BY <2>4 DEF EraseCount
    <3> HIDE DEF r
    <3>2. dis'[s] = r /\ \A t \in Sockets \ {s} : dis'[t] = dis[t] BY <1>0, <3>1
    <3>3. QED BY <2>2, <3>1, <3>2
  <2>5. QED BY <1>4, <2>1, <2>3, <2>4 DEF DisconnectStep
<1>5. ASSUME NEW S \in SUBSET Sockets, ProcessStops(S) PROVE Over \subseteq Over'
  BY <1>5 DEF ProcessStops, Over
<1>6. ASSUME NEW l \in Looks, LookStep(l) PROVE Over \subseteq Over'
  <2>1. CASE LogoutCloses(l)
    <3>1. Disconnecting(look[l].found \cap live) /\ look[l].found \cap live \subseteq live
      BY <2>1 DEF LogoutCloses
    <3>2. QED BY <1>2, <3>1
  <2>2. QED BY <1>1, <1>6, <2>1 DEF LookStep, ReadCount, FetchSockets, LogoutFinds, ForceOffline
<1>7. CASE MakeConversation \/ AnnounceConversation
  BY <1>1, <1>7 DEF MakeConversation, AnnounceConversation
<1>8. ASSUME NEW s \in Sockets, OnConversationNew(s) \/ OnJoin(s) PROVE UNCHANGED dis
  BY <1>8 DEF OnConversationNew, OnJoin
<1>9. CASE UNCHANGED presenceVars BY <1>1, <1>9 DEF presenceVars
<1>10. QED BY <1>1, <1>3, <1>4, <1>5, <1>6, <1>7, <1>8, <1>9 DEF PresenceNext

LEMMA SpanStart == PresenceInit => SpanInv
<1> SUFFICES ASSUME PresenceInit PROVE SpanInv
  OBVIOUS
<1>1. count = 0 /\ inConv = {} BY DEF PresenceInit
<1>2. \A s \in Sockets : dis[s].read = 0 BY DEF PresenceInit
<1>3. NoLook \in [pc: LookPCs, found: SUBSET Sockets] BY DEF NoLook, LookPCs
<1>4. look \in [Looks -> [pc: LookPCs, found: SUBSET Sockets]] BY <1>3 DEF PresenceInit
<1>5. Spanned BY <1>1, SpanFinite DEF Spanned
<1>6. 0 \in Span BY SpanFinite DEF Span
<1>7. QED BY <1>1, <1>2, <1>4, <1>5, <1>6, CountStart DEF SpanInv

(* The counter over a step: kept or put back to 0, or moved by a socket    *)
(* that had not moved it so before.                                        *)
LEMMA SpannedStep == SpanInv /\ [PresenceNext]_presenceVars => Spanned'
<1> SUFFICES ASSUME SpanInv, [PresenceNext]_presenceVars PROVE Spanned'
  OBVIOUS
<1>0. CountInv /\ Spanned /\ CountInv' BY CountStep DEF SpanInv
<1>1. Begun \subseteq Begun' /\ Over \subseteq Over' BY <1>0, BegunGrows, OverGrows
<1>2. Begun' \subseteq Sockets /\ Over' \subseteq Sockets BY DEF Begun, Over
<1>3. Cardinality(Begun) <= Cardinality(Begun)' /\ Cardinality(Over) <= Cardinality(Over)'
  BY <1>1, <1>2, MoreSockets
<1>4. ASSUME count' \in {0, count} PROVE Spanned'
  BY <1>0, <1>3, <1>4, SpanFinite DEF Spanned
<1>5. ASSUME NEW s \in Sockets, PresenceConnect(s) PROVE Spanned'
  <2>1. con[s] = "count" /\ count' = count + 1 BY <1>5 DEF PresenceConnect
  <2>2. con'[s] = "up" BY <1>0, <1>5 DEF PresenceConnect, ConGoto, CountInv, RoomsInv
  <2>3. s \in Begun' /\ s \notin Begun BY <2>1, <2>2 DEF Begun
  <2>4. Cardinality(Begun) + 1 <= Cardinality(Begun)' BY <1>1, <1>2, <2>3, OneMoreSocket
  <2>5. QED BY <1>0, <1>3, <2>1, <2>4, SpanFinite DEF Spanned
<1>6. ASSUME NEW s \in Sockets, PresenceDisconnect(s) PROVE Spanned'
  <2>1. dis[s].pc = "decrement" /\ count' = count - 1 BY <1>6 DEF PresenceDisconnect
  <2>2. dis'[s].pc \in {"erase", "over"}
    BY <1>0, <1>6 DEF PresenceDisconnect, CountInv
  <2>3. s \in Over' /\ s \notin Over BY <2>1, <2>2 DEF Over
  <2>4. Cardinality(Over) + 1 <= Cardinality(Over)' BY <1>1, <1>2, <2>3, OneMoreSocket
  <2>5. QED BY <1>0, <1>3, <2>1, <2>4, SpanFinite DEF Spanned
<1>7. ASSUME NEW s \in Sockets, ConnectStep(s) \/ DisconnectStep(s) PROVE Spanned'
  <2>1. CASE PresenceConnect(s) BY <1>5, <2>1
  <2>2. CASE PresenceDisconnect(s) BY <1>6, <2>2
  <2>3. CASE EraseCount(s)
    <3>1. count' = 0 BY <2>3 DEF EraseCount
    <3>2. QED BY <1>4, <3>1
  <2>4. CASE CloseSocket(s)
    <3>1. count' = count BY <2>4 DEF CloseSocket
    <3>2. QED BY <1>4, <3>1
  <2>5. CASE \/ OpenSocket(s) \/ JoinUser(s) \/ ListConversations(s) \/ JoinListed(s)
             \/ ConnectFails(s)
    <3>1. count' = count
      BY <2>5 DEF OpenSocket, JoinUser, ListConversations, JoinListed, ConnectFails
    <3>2. QED BY <1>4, <3>1
  <2>6. QED BY <1>7, <2>1, <2>2, <2>3, <2>4, <2>5 DEF ConnectStep, DisconnectStep
<1>8. ASSUME NEW s \in Sockets, OnConversationNew(s) \/ OnJoin(s) PROVE Spanned'
  <2>1. count' = count BY <1>8 DEF OnConversationNew, OnJoin
  <2>2. QED BY <1>4, <2>1
<1>9. ASSUME NEW S \in SUBSET Sockets, ProcessStops(S) PROVE Spanned'
  <2>1. count' = count BY <1>9 DEF ProcessStops
  <2>2. QED BY <1>4, <2>1
<1>10. ASSUME NEW l \in Looks, LookStep(l) PROVE Spanned'
  <2>1. CASE ForceOffline(l)
    <3>1. count' = 0 BY <2>1 DEF ForceOffline
    <3>2. QED BY <1>4, <3>1
  <2>2. CASE ReadCount(l) \/ FetchSockets(l) \/ LogoutFinds(l) \/ LogoutCloses(l)
    <3>1. count' = count BY <2>2 DEF ReadCount, FetchSockets, LogoutFinds, LogoutCloses
    <3>2. QED BY <1>4, <3>1
  <2>3. QED BY <1>10, <2>1, <2>2 DEF LookStep
<1>11. CASE MakeConversation \/ AnnounceConversation \/ UNCHANGED presenceVars
  <2>1. count' = count BY <1>11 DEF MakeConversation, AnnounceConversation, presenceVars
  <2>2. QED BY <1>4, <2>1
<1>12. QED BY <1>7, <1>8, <1>9, <1>10, <1>11 DEF PresenceNext

LEMMA ReadsStep ==
  SpanInv /\ [PresenceNext]_presenceVars => \A s \in Sockets : dis'[s].read \in Span
<1> SUFFICES ASSUME SpanInv, [PresenceNext]_presenceVars
             PROVE  \A s \in Sockets : dis'[s].read \in Span
  OBVIOUS
<1>0. /\ dis \in [Sockets -> DisState] /\ \A s \in Sockets : dis[s].read \in Span
      /\ 0 \in Span
  BY SpanFinite DEF SpanInv, CountInv, Span
<1>1. ASSUME UNCHANGED dis PROVE \A s \in Sockets : dis'[s].read \in Span BY <1>0, <1>1
<1>2. ASSUME NEW S, Disconnecting(S) PROVE \A s \in Sockets : dis'[s].read \in Span
  BY <1>0, <1>2 DEF Disconnecting
<1>3. ASSUME NEW s \in Sockets, NEW r, r.read \in Span, dis' = [dis EXCEPT ![s] = r]
      PROVE  \A t \in Sockets : dis'[t].read \in Span
  BY <1>0, <1>3
<1>4. ASSUME NEW s \in Sockets, ConnectStep(s) PROVE \A t \in Sockets : dis'[t].read \in Span
  <2>1. CASE ConnectFails(s)
    <3>1. Disconnecting({s} \cap live) BY <2>1 DEF ConnectFails
    <3>2. QED BY <1>2, <3>1
  <2>2. QED
    BY <1>1, <1>4, <2>1
       DEF ConnectStep, OpenSocket, JoinUser, ListConversations, JoinListed, PresenceConnect
<1>5. ASSUME NEW s \in Sockets, DisconnectStep(s) PROVE \A t \in Sockets : dis'[t].read \in Span
  <2>1. CASE CloseSocket(s) BY <1>2, <2>1 DEF CloseSocket
  <2>2. CASE PresenceDisconnect(s)
    <3> DEFINE r == IF count <= 1 THEN [pc |-> "erase", read |-> count - 1]
                    ELSE [pc |-> "over", read |-> 0]
    <3>1. dis' = [dis EXCEPT ![s] = r] /\ count' = count - 1 BY <2>2 DEF PresenceDisconnect
    <3>2. count' \in Int /\ count' <= Cardinality(Begun)' /\ -Cardinality(Over)' <= count'
      BY SpannedStep DEF Spanned
    <3>3. Begun' \subseteq Sockets /\ Over' \subseteq Sockets BY DEF Begun, Over
    <3>4. Cardinality(Begun)' <= Cardinality(Sockets) /\ Cardinality(Over)' <= Cardinality(Sockets)
      BY <3>3, MoreSockets
    <3>5. count - 1 \in Span BY <3>1, <3>2, <3>4, SpanFinite DEF Span
    <3>6. r.read \in Span BY <1>0, <3>5
    <3> HIDE DEF r
    <3>7. QED BY <1>3, <3>1, <3>6
  <2>3. CASE EraseCount(s)
    <3> DEFINE r == [pc |-> "over", read |-> 0]
    <3>1. dis' = [dis EXCEPT ![s] = r] BY <2>3 DEF EraseCount
    <3>2. r.read \in Span BY <1>0
    <3> HIDE DEF r
    <3>3. QED BY <1>3, <3>1, <3>2
  <2>4. QED BY <1>5, <2>1, <2>2, <2>3 DEF DisconnectStep
<1>6. ASSUME NEW S \in SUBSET Sockets, ProcessStops(S) PROVE \A t \in Sockets : dis'[t].read \in Span
  BY <1>0, <1>6 DEF ProcessStops
<1>7. ASSUME NEW l \in Looks, LookStep(l) PROVE \A t \in Sockets : dis'[t].read \in Span
  <2>1. CASE LogoutCloses(l)
    <3>1. Disconnecting(look[l].found \cap live) BY <2>1 DEF LogoutCloses
    <3>2. QED BY <1>2, <3>1
  <2>2. QED BY <1>1, <1>7, <2>1 DEF LookStep, ReadCount, FetchSockets, LogoutFinds, ForceOffline
<1>8. ASSUME NEW s \in Sockets, OnConversationNew(s) \/ OnJoin(s) PROVE UNCHANGED dis
  BY <1>8 DEF OnConversationNew, OnJoin
<1>9. CASE MakeConversation \/ AnnounceConversation \/ UNCHANGED presenceVars
  BY <1>1, <1>9 DEF MakeConversation, AnnounceConversation, presenceVars
<1>10. QED BY <1>1, <1>4, <1>5, <1>6, <1>7, <1>8, <1>9 DEF PresenceNext

LEMMA SpanStep == SpanInv /\ [PresenceNext]_presenceVars => SpanInv'
<1> SUFFICES ASSUME SpanInv, [PresenceNext]_presenceVars PROVE SpanInv'
  OBVIOUS
<1>1. CountInv' /\ Spanned' BY CountStep, SpannedStep DEF SpanInv
<1>2. \A s \in Sockets : dis'[s].read \in Span BY ReadsStep
<1>3. inConv' \subseteq live'
  <2>0. inConv \subseteq live BY DEF SpanInv
  <2>1. ASSUME NEW s \in Sockets, ConnectStep(s) PROVE inConv' \subseteq live'
    BY <2>0, <2>1 DEF ConnectStep, OpenSocket, JoinUser, ListConversations, JoinListed,
       PresenceConnect, ConnectFails, Leave, Join, roomVars
  <2>2. ASSUME NEW s \in Sockets, DisconnectStep(s) PROVE inConv' \subseteq live'
    BY <2>0, <2>2 DEF DisconnectStep, CloseSocket, PresenceDisconnect, EraseCount, Leave, roomVars
  <2>3. ASSUME NEW s \in Sockets, OnConversationNew(s) \/ OnJoin(s) PROVE inConv' \subseteq live'
    BY <2>0, <2>3 DEF OnConversationNew, OnJoin, Join
  <2>4. ASSUME NEW S \in SUBSET Sockets, ProcessStops(S) PROVE inConv' \subseteq live'
    BY <2>0, <2>4 DEF ProcessStops, Leave
  <2>5. ASSUME NEW l \in Looks, LookStep(l) PROVE inConv' \subseteq live'
    BY <2>0, <2>5 DEF LookStep, ReadCount, FetchSockets, LogoutFinds, LogoutCloses,
       ForceOffline, Leave, roomVars
  <2>6. CASE MakeConversation \/ AnnounceConversation \/ UNCHANGED presenceVars
    BY <2>0, <2>6 DEF MakeConversation, AnnounceConversation, presenceVars
  <2>7. QED BY <2>1, <2>2, <2>3, <2>4, <2>5, <2>6 DEF PresenceNext
<1>4. look' \in [Looks -> [pc: LookPCs, found: SUBSET Sockets]]
  <2> DEFINE Looking == [pc: LookPCs, found: SUBSET Sockets]
  <2>0. look \in [Looks -> Looking] /\ inUser \subseteq Sockets
    BY DEF SpanInv, CountInv, RoomsInv
  <2>1. ASSUME UNCHANGED look PROVE look' \in [Looks -> Looking] BY <2>0, <2>1
  <2>2. ASSUME NEW l \in Looks, NEW r \in Looking, look' = [look EXCEPT ![l] = r]
        PROVE  look' \in [Looks -> Looking]
    BY <2>0, <2>2
  <2>3. NoLook \in Looking BY DEF NoLook, LookPCs
  <2>4. ASSUME NEW l \in Looks, LookStep(l) PROVE look' \in [Looks -> Looking]
    <3>1. CASE ReadCount(l)
      <4>1. look' = [look EXCEPT ![l] = [look[l] EXCEPT !.pc = "check"]]
        BY <2>0, <3>1 DEF ReadCount
      <4>2. [look[l] EXCEPT !.pc = "check"] \in Looking BY <2>0 DEF LookPCs
      <4>3. QED BY <2>2, <4>1, <4>2
    <3>2. CASE FetchSockets(l)
      <4> DEFINE r == IF inUser = {} THEN [pc |-> "erase", found |-> {}] ELSE NoLook
      <4>1. look' = [look EXCEPT ![l] = r] BY <3>2 DEF FetchSockets
      <4>2. r \in Looking BY <2>3 DEF LookPCs
      <4> HIDE DEF r
      <4>3. QED BY <2>2, <4>1, <4>2
    <3>3. CASE LogoutFinds(l)
      <4> DEFINE r == [pc |-> IF inUser = {} THEN "erase" ELSE "logout", found |-> inUser]
      <4>1. look' = [look EXCEPT ![l] = r] BY <3>3 DEF LogoutFinds
      <4>2. r \in Looking BY <2>0 DEF LookPCs
      <4> HIDE DEF r
      <4>3. QED BY <2>2, <4>1, <4>2
    <3>4. CASE LogoutCloses(l) \/ ForceOffline(l)
      <4>1. look' = [look EXCEPT ![l] = NoLook] BY <3>4 DEF LogoutCloses, ForceOffline
      <4>2. QED BY <2>2, <2>3, <4>1
    <3>5. QED BY <2>4, <3>1, <3>2, <3>3, <3>4 DEF LookStep
  <2>5. ASSUME NEW s \in Sockets,
               ConnectStep(s) \/ DisconnectStep(s) \/ OnConversationNew(s) \/ OnJoin(s)
        PROVE  UNCHANGED look
    BY <2>5 DEF ConnectStep, OpenSocket, JoinUser, ListConversations, JoinListed, PresenceConnect,
       ConnectFails, DisconnectStep, CloseSocket, PresenceDisconnect, EraseCount,
       OnConversationNew, OnJoin
  <2>6. ASSUME NEW S \in SUBSET Sockets, ProcessStops(S) PROVE UNCHANGED look
    BY <2>6 DEF ProcessStops
  <2>7. MakeConversation \/ AnnounceConversation \/ UNCHANGED presenceVars => UNCHANGED look
    BY DEF MakeConversation, AnnounceConversation, presenceVars
  <2> HIDE DEF Looking
  <2>8. look' \in [Looks -> Looking]
    BY <2>1, <2>4, <2>5, <2>6, <2>7 DEF PresenceNext
  <2>9. QED BY <2>8 DEF Looking
<1>5. QED BY <1>1, <1>2, <1>3, <1>4 DEF SpanInv

(* The sockets, rooms and snapshots keep their types, and the counter      *)
(* stays within the number of sockets, above and below 0.                  *)
THEOREM PresenceTyped == PresenceSpec => []PresenceTypeOK
<1>1. SpanInv => PresenceTypeOK
  <2> SUFFICES ASSUME SpanInv PROVE PresenceTypeOK
    OBVIOUS
  <2>1. count \in Span BY SpanFinite DEF SpanInv, Spanned, Span
  <2>2. dis \in [Sockets -> [pc: {"none", "decrement", "erase", "over"}, read: Span]]
    BY DEF SpanInv, CountInv, DisState
  <2>3. QED BY <2>1, <2>2 DEF SpanInv, CountInv, RoomsInv, PresenceTypeOK, Span
<1>2. QED BY <1>1, SpanStart, SpanStep, PTL DEF PresenceSpec

-----------------------------------------------------------------------------
(* Polls and read marks keep their types. *)

LEMMA PollsTypeStep == PollsInv /\ PollsTypeOK /\ [PollsNext]_pollVars => PollsTypeOK'
<1> SUFFICES ASSUME PollsInv, PollsTypeOK, [PollsNext]_pollVars PROVE PollsTypeOK'
  OBVIOUS
<1>1. votes' \subseteq Voters \X Options /\ ballot' \in [Ballots -> Ballot]
  BY PollsStep DEF PollsInv
<1>2. CASE CreatePoll BY <1>1, <1>2 DEF CreatePoll, PollsTypeOK
<1>3. ASSUME NEW b \in Ballots, InsertVotes(b) PROVE PollsTypeOK'
  <2>1. PICK v \in ballot[b].voter : crossed' \in {crossed, crossed \cup {v}} /\ UNCHANGED poll
    BY <1>3 DEF InsertVotes
  <2>2. v \in Voters BY <2>1 DEF PollsTypeOK, Ballot
  <2>3. QED BY <1>1, <2>1, <2>2 DEF PollsTypeOK
<1>4. ASSUME UNCHANGED <<poll, crossed>> PROVE PollsTypeOK' BY <1>1, <1>4 DEF PollsTypeOK
<1>5. QED
  BY <1>2, <1>3, <1>4 DEF PollsNext, CheckVote, DeleteVotes, RollBack, pollVars

(* The poll, its votes and the ballots in flight keep their types.         *)
THEOREM PollsTyped == PollsSpec => []PollsTypeOK
<1>1. PollsInit => PollsTypeOK BY NoBallotRecord DEF PollsInit, PollsTypeOK
<1>2. QED BY <1>1, PollsStart, PollsStep, PollsTypeStep, PTL DEF PollsSpec

(* A ballot in flight is of a poll that is made, and names something. *)
AskedOf(k)  == k.pc # "idle" => poll.made /\ k.ids # {}
BallotsAsk  == \A b \in Ballots : AskedOf(ballot[b])

LEMMA BallotsAskStep == PollsInv /\ BallotsAsk /\ [PollsNext]_pollVars => BallotsAsk'
<1> SUFFICES ASSUME PollsInv, BallotsAsk, [PollsNext]_pollVars PROVE BallotsAsk'
  OBVIOUS
<1>0. ballot \in [Ballots -> Ballot] BY DEF PollsInv
<1>1. CASE UNCHANGED pollVars BY <1>1 DEF pollVars, BallotsAsk, AskedOf
<1>2. CASE CreatePoll
  <2>1. poll'.made /\ UNCHANGED ballot BY <1>2 DEF CreatePoll
  <2>2. QED BY <2>1 DEF BallotsAsk, AskedOf
<1>3. ASSUME NEW b \in Ballots, NEW k, ballot' = [ballot EXCEPT ![b] = k], UNCHANGED poll, AskedOf(k)
      PROVE  BallotsAsk'
  <2>1. ballot'[b] = k /\ \A d \in Ballots \ {b} : ballot'[d] = ballot[d] BY <1>0, <1>3
  <2>2. QED BY <1>3, <2>1 DEF BallotsAsk, AskedOf
<1>4. ASSUME NEW b \in Ballots, CheckVote(b) PROVE BallotsAsk'
  <2>1. PICK v \in Voters, ids \in (SUBSET Options) \ {{}} :
          ballot' = [ballot EXCEPT ![b] = [pc |-> "delete", voter |-> {v}, ids |-> ids, gone |-> {}]]
    BY <1>4 DEF CheckVote
  <2> DEFINE k == [pc |-> "delete", voter |-> {v}, ids |-> ids, gone |-> {}]
  <2>2. poll.made /\ UNCHANGED poll BY <1>4 DEF CheckVote
  <2>3. ballot' = [ballot EXCEPT ![b] = k] BY <2>1
  <2>4. k.ids = ids /\ ids # {} OBVIOUS
  <2> HIDE DEF k
  <2>5. AskedOf(k) BY <2>2, <2>4 DEF AskedOf
  <2>6. QED BY <1>3, <2>2, <2>3, <2>5
<1>5. ASSUME NEW b \in Ballots, DeleteVotes(b) PROVE BallotsAsk'
  <2>1. PICK v \in ballot[b].voter :
          ballot' = [ballot EXCEPT ![b].pc = "insert", ![b].gone = Choices(v)]
    BY <1>5 DEF DeleteVotes
  <2> DEFINE k == [ballot[b] EXCEPT !.pc = "insert", !.gone = Choices(v)]
  <2>2. ballot[b] \in Ballot /\ ballot[b].pc = "delete" /\ UNCHANGED poll
    BY <1>0, <1>5 DEF DeleteVotes
  <2>3. k.ids = ballot[b].ids /\ ballot' = [ballot EXCEPT ![b] = k] BY <1>0, <2>1, <2>2 DEF Ballot
  <2>4. AskedOf(k) BY <2>2, <2>3 DEF BallotsAsk, AskedOf
  <2> HIDE DEF k
  <2>5. QED BY <1>3, <2>2, <2>3, <2>4
<1>6. ASSUME NEW b \in Ballots, InsertVotes(b) PROVE BallotsAsk'
  <2>1. UNCHANGED poll
        /\ ballot' = [d \in Ballots |->
                        IF d = b THEN NoBallot
                        ELSE IF Overtaken(b, d) THEN [ballot[d] EXCEPT !.gone = @ \ ballot[b].gone]
                        ELSE ballot[d]]
    BY <1>6 DEF InsertVotes
  <2>2. SUFFICES ASSUME NEW d \in Ballots PROVE AskedOf(ballot[d])'
    BY DEF BallotsAsk
  <2> DEFINE k == [ballot[d] EXCEPT !.gone = @ \ ballot[b].gone]
  <2>3. ballot'[d] \in {NoBallot, k, ballot[d]} BY <2>1
  <2>4. k.pc = ballot[d].pc /\ k.ids = ballot[d].ids BY <1>0 DEF Ballot
  <2> HIDE DEF k
  <2>5. QED BY <2>1, <2>3, <2>4, NoBallotRecord DEF BallotsAsk, AskedOf
<1>7. ASSUME NEW b \in Ballots, RollBack(b) PROVE BallotsAsk'
  <2>1. ballot' = [ballot EXCEPT ![b] = NoBallot] /\ UNCHANGED poll BY <1>7 DEF RollBack
  <2>2. AskedOf(NoBallot) BY NoBallotRecord DEF AskedOf
  <2>3. QED BY <1>3, <2>1, <2>2
<1>8. QED BY <1>1, <1>2, <1>4, <1>5, <1>6, <1>7 DEF PollsNext

(* What a ballot asks for is allowed by the poll. *)
LEMMA AskedIsAllowed ==
  ASSUME PollsInv, BallotsAsk, NEW b \in Ballots, ballot[b].pc # "idle"
  PROVE  poll.made /\ ballot[b].ids \in SUBSET Options /\ Atomic!Allowed(ballot[b].ids)
<1>1. poll.made /\ ballot[b].ids # {} BY DEF BallotsAsk, AskedOf
<1>2. ballot[b].ids \subseteq Options BY DEF PollsInv, Ballot
<1>3. PICK o \in ballot[b].ids : TRUE BY <1>1
<1>4. ~poll.multiple => ballot[b].ids = {o} BY <1>3 DEF PollsInv
<1>5. o \in Options BY <1>2
<1>6. QED BY <1>1, <1>2, <1>4, <1>5 DEF Atomic!Allowed

(* The commit of a ballot is a vote, whole if its voter's ballots did not  *)
(* overlap, for then it has deleted all there was.                         *)
LEMMA InsertIsVote ==
  ASSUME PollsInv, BallotsAsk, NEW b \in Ballots, InsertVotes(b)
  PROVE  \E v \in Voters : Atomic!Vote(v)
<1>1. PICK v \in Voters : ballot[b].voter = {v} BY DEF PollsInv, InsertVotes
<1> DEFINE left == Choices(v) \ ballot[b].gone
           ids  == ballot[b].ids
<1>2. /\ votes' = {w \in votes : w[1] # v \/ w[2] \in left} \cup {<<v, o>> : o \in ids}
      /\ crossed' \in {crossed, crossed \cup {v}}
      /\ poll' = poll /\ ballot[b].pc = "insert"
  BY <1>1 DEF InsertVotes
<1>3. poll.made /\ ids \in SUBSET Options /\ Atomic!Allowed(ids) BY <1>2, AskedIsAllowed
<1>4. {<<v, o>> : o \in ids} = Atomic!Cast(v, ids) BY DEF Atomic!Cast
<1>5. v \notin crossed => left = {} BY <1>1, <1>2 DEF PollsInv
<1> HIDE DEF left, ids
<1>6. CASE v \notin crossed
  <2>1. {w \in votes : w[1] # v \/ w[2] \in left} = votes \ Atomic!Of(v)
    BY <1>5, <1>6 DEF Atomic!Of
  <2>2. Atomic!Replace(v, ids) BY <1>2, <1>4, <1>6, <2>1 DEF Atomic!Replace
  <2>3. QED BY <1>2, <1>3, <2>2 DEF Atomic!Vote
<1>7. CASE v \in crossed
  <2> DEFINE kept == {w \in Atomic!Of(v) : w[2] \in left}
  <2>1. {w \in votes : w[1] # v \/ w[2] \in left} = (votes \ Atomic!Of(v)) \cup kept
    BY DEF Atomic!Of
  <2>2. kept \in SUBSET Atomic!Of(v) OBVIOUS
  <2>3. crossed' = crossed BY <1>2, <1>7
  <2> HIDE DEF kept
  <2>4. votes' = (votes \ Atomic!Of(v)) \cup kept \cup Atomic!Cast(v, ids) BY <1>2, <1>4, <2>1
  <2>5. Atomic!Merge(v, ids) BY <1>7, <2>2, <2>3, <2>4 DEF Atomic!Merge
  <2>6. QED BY <1>2, <1>3, <2>5 DEF Atomic!Vote
<1>8. QED BY <1>6, <1>7

(* Ballots replace choices at once and whole, and touch no other voter's,  *)
(* for any number of voters, options and ballots in flight; those of one   *)
(* voter that overlapped leave what the later names, and nothing new else. *)
THEOREM BallotsReplace == PollsSpec => ImplementsAtomicPoll
<1>1. PollsInit => Atomic!Init BY DEF PollsInit, Atomic!Init
<1>2. PollsInit => BallotsAsk BY NoBallotRecord DEF PollsInit, BallotsAsk, AskedOf
<1>3. PollsInv /\ BallotsAsk /\ [PollsNext]_pollVars => [Atomic!Next]_(Atomic!vars)
  <2> SUFFICES ASSUME PollsInv, BallotsAsk, [PollsNext]_pollVars PROVE [Atomic!Next]_(Atomic!vars)
    OBVIOUS
  <2>1. ASSUME UNCHANGED <<poll, votes, crossed>> PROVE [Atomic!Next]_(Atomic!vars)
    BY <2>1 DEF Atomic!vars
  <2>2. CASE CreatePoll BY <2>2 DEF CreatePoll, Atomic!Create, Atomic!Next
  <2>3. ASSUME NEW b \in Ballots, InsertVotes(b) PROVE Atomic!Next
    BY <2>3, InsertIsVote DEF Atomic!Next
  <2>4. ASSUME NEW b \in Ballots, CheckVote(b) \/ DeleteVotes(b) \/ RollBack(b)
        PROVE  UNCHANGED <<poll, votes, crossed>>
    BY <2>4 DEF CheckVote, DeleteVotes, RollBack
  <2>5. CASE UNCHANGED pollVars BY <2>1, <2>5 DEF pollVars
  <2>6. QED BY <2>1, <2>2, <2>3, <2>4, <2>5 DEF PollsNext
<1>4. QED
  BY <1>1, <1>2, <1>3, PollsStart, PollsStep, BallotsAskStep, PTL
     DEF PollsSpec, ImplementsAtomicPoll, Atomic!Spec

(* The member's row, the times and the handlers keep their types.          *)
THEOREM MarksTyped == MarksSpec => []MarksTypeOK
<1>1. MarksInit => MarksInv /\ made \in BOOLEAN BY MarksStart DEF MarksInit
<1>2. MarksInv /\ made \in BOOLEAN /\ [MarksNext]_markVars => MarksInv' /\ (made \in BOOLEAN)'
  <2> SUFFICES ASSUME MarksInv, made \in BOOLEAN, [MarksNext]_markVars PROVE made' \in BOOLEAN
    BY MarksStep
  <2>1. ASSUME NEW j \in ReadCalls, CreateDirect(j) PROVE made' \in BOOLEAN
    BY <2>1 DEF CreateDirect
  <2>2. ASSUME NEW j \in ReadCalls, FindDirect(j) \/ ChooseTime(j) \/ ChooseMark(j)
        PROVE  UNCHANGED made
    BY <2>2 DEF FindDirect, ChooseTime, ChooseMark, Begin
  <2>3. ASSUME NEW j \in ReadCalls,
               \/ RestoreForViewer(j) \/ SetHidden(j) \/ MarkRead(j)
               \/ ReviveRemoved(j) \/ UnhideSender(j)
        PROVE  UNCHANGED made
    BY <2>3 DEF RestoreForViewer, SetHidden, MarkRead, ReviveRemoved, UnhideSender, Step
  <2>4. ASSUME NEW j \in ReadCalls, ClearForViewer(j) \/ RemoveForViewer(j)
        PROVE  UNCHANGED made
    BY <2>4 DEF ClearForViewer, RemoveForViewer, WriteCleared
  <2>5. ASSUME NEW j \in ReadCalls, PostMessage(j) \/ FindRemoved(j) \/ AbandonJob(j)
        PROVE  UNCHANGED made
    BY <2>5 DEF PostMessage, FindRemoved, AbandonJob
  <2>6. PostPoll \/ Tick \/ UNCHANGED markVars => UNCHANGED made
    BY DEF PostPoll, Tick, markVars
  <2>7. QED BY <2>1, <2>2, <2>3, <2>4, <2>5, <2>6 DEF MarksNext
<1>3. MarksInv /\ made \in BOOLEAN => MarksTypeOK
  BY DEF MarksInv, MarksTypeOK, ReadJob, MemberRow
<1>4. QED BY <1>1, <1>2, <1>3, PTL DEF MarksSpec

-----------------------------------------------------------------------------
(* The components next to each other. *)

(* A behaviour in which one of the five moves is a behaviour of each: what *)
(* is proved of one of them holds of what the run of all five explores.    *)
THEOREM MessagingComposes ==
  Spec => PresenceSpec /\ ThreadSpec /\ PollsSpec /\ MarksSpec /\ SeriesSpec
<1>1. Init => PresenceInit /\ ThreadInit /\ PollsInit /\ MarksInit /\ SeriesInit BY DEF Init
<1>2. [Next]_messagingVars => /\ [PresenceNext]_presenceVars /\ [ThreadNext]_threadVars
                              /\ [PollsNext]_pollVars /\ [MarksNext]_markVars
                              /\ [SeriesNext]_seriesVars
  <2>1. ASSUME UNCHANGED messagingVars
        PROVE  /\ UNCHANGED presenceVars /\ UNCHANGED threadVars /\ UNCHANGED pollVars
               /\ UNCHANGED markVars /\ UNCHANGED seriesVars
    BY <2>1 DEF messagingVars
  <2>2. QED BY <2>1 DEF Next
<1>3. QED
  BY <1>1, <1>2, PTL DEF Spec, PresenceSpec, ThreadSpec, PollsSpec, MarksSpec, SeriesSpec

(* The variables of the five keep their types. *)
LEMMA MessagingTyped == Spec => []TypeOK
<1>1. PresenceTypeOK /\ ThreadTypeOK /\ PollsTypeOK /\ MarksTypeOK /\ SeriesTypeOK => TypeOK
  BY DEF TypeOK
<1>2. QED
  BY <1>1, MessagingComposes, PresenceTyped, ThreadTyped, PollsTyped, MarksTyped, SeriesTyped, PTL

(* The five next to each other keep their types and what is promised of    *)
(* each: the rooms of a user's sockets, who is counted as present, the     *)
(* message on its page, the choices of a voter, the conversation that was  *)
(* removed, the dates of a series; and the poll implements the atomic one. *)
(* For any sockets, handlers, voters, options and rules.                   *)
THEOREM MessagingHolds ==
  Spec => /\ []TypeOK
          /\ [](RoomsJoined /\ CountedWhileConnected /\ PageSettles
                /\ OneChoice /\ RemovedComesBack /\ SeriesFollowsRule)
          /\ ImplementsAtomicPoll
BY MessagingComposes, MessagingTyped, RoomsAreJoined, CountedStays, PageShowsTheMessage,
   OneChoiceStays, RemovedReturns, SeriesFollows, BallotsReplace, PTL
=============================================================================
