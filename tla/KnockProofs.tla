----------------------------- MODULE KnockProofs -----------------------------
(***************************************************************************)
(* Theorems about Knock, for any sockets, pages, users and number of       *)
(* handlers.  One of them holds on one process only.                       *)
(***************************************************************************)
EXTENDS Knock, TLAPS

(* The deployment with a single API process. *)
OneProcess == \A v, w \in Servers : v = w

(* Parked knocks are of the process they are parked in, one for each user. *)
Parked ==
  \A v \in Servers : \A s, t \in pendingKnocks[v] :
    ServerOf[s] = v /\ (UserOf[s] = UserOf[t] => s = t)

(* Only open sockets of the host are in the host room or on the way to it. *)
HostsOnly ==
  /\ \A s \in hostRoom : IsHost(s) /\ conn[s] = "open"
  /\ \A c \in Calls :
       call[c].pc \in {"joining", "host_room", "replay"} => IsHost(call[c].sock)

(* A page has one connection at a time, and one as long as it waits; its   *)
(* knock is under way on that one; and a host's page knocks at no door.    *)
(* But for what is lost with a connection.                                 *)
OneOpen == \A s, t \in Sockets :
  PageOf[s] = PageOf[t] /\ conn[s] = "open" /\ conn[t] = "open" => s = t

WaitsOpen == \A p \in Pages \ unheard :
  view[p] = "waiting" => \E s \in Sockets : PageOf[s] = p /\ conn[s] = "open"

KnocksOpen == \A c \in Calls :
  call[c].pc \in {"knocking", "checked"} =>
    /\ ~IsHost(call[c].sock)
    /\ conn[call[c].sock] = "open" \/ PageOf[call[c].sock] \in unheard

HostsOut == \A s \in Sockets : IsHost(s) => view[PageOf[s]] = "out"

PagesInv == OneOpen /\ WaitsOpen /\ KnocksOpen /\ HostsOut

IInv == TypeOK /\ Parked /\ HostsOnly /\ PagesInv /\ WaitingIsParked

(* With one process the hosts see what is parked, too. *)
SInv == IInv /\ HostSeesKnocks

-----------------------------------------------------------------------------
(* The table of handlers. *)

(* The names of the program counters. *)
LEMMA Names ==
  /\ "idle" \in PCs /\ "joining" \in PCs /\ "host_room" \in PCs /\ "replay" \in PCs
  /\ "knocking" \in PCs /\ "checked" \in PCs /\ "respond" \in PCs
BY DEF PCs

(* The fields of a handler have their types. *)
LEMMA CallFields ==
  ASSUME TypeOK, NEW c \in Calls
  PROVE  /\ call[c] \in CallRecord
         /\ call[c].pc \in PCs /\ call[c].sock \in Sockets
         /\ call[c].target \in Users /\ call[c].yes \in BOOLEAN
         /\ ServerOf[call[c].sock] \in Servers /\ UserOf[call[c].sock] \in Users
         /\ PageOf[call[c].sock] \in Pages
BY KnockAssumption DEF TypeOK, CallRecord, KnockAssumption

(* A finished handler has a typed record. *)
LEMMA IdleFields == Idle \in CallRecord /\ Idle.pc = "idle"
<1>1. \E s \in Sockets : TRUE BY KnockAssumption DEF KnockAssumption
<1>2. (CHOOSE s \in Sockets : TRUE) \in Sockets BY <1>1
<1>3. Host \in Users /\ FALSE \in BOOLEAN BY KnockAssumption DEF KnockAssumption
<1>4. QED BY <1>2, <1>3, Names DEF Idle, CallRecord

(* What a new handler, a step of one and its end leave behind. *)
LEMMA BeginFields ==
  ASSUME TypeOK, NEW c \in Calls, NEW s \in Sockets, NEW pc \in PCs, NEW u \in Users,
         NEW yes \in BOOLEAN, Begin(c, s, pc, u, yes)
  PROVE  /\ call' \in [Calls -> CallRecord]
         /\ call[c].pc = "idle" /\ conn[s] = "open"
         /\ call'[c].pc = pc /\ call'[c].sock = s /\ call'[c].target = u
         /\ call'[c].yes = yes
         /\ \A d \in Calls \ {c} : call'[d] = call[d]
<1>1. [pc |-> pc, sock |-> s, target |-> u, yes |-> yes] \in CallRecord
  BY DEF CallRecord
<1>2. QED BY <1>1 DEF Begin, TypeOK

(* A handler that moves on keeps its socket. *)
LEMMA StepFields ==
  ASSUME TypeOK, NEW c \in Calls, NEW pc \in PCs, Step(c, pc)
  PROVE  /\ call' \in [Calls -> CallRecord]
         /\ call'[c].pc = pc /\ call'[c].sock = call[c].sock
         /\ \A d \in Calls \ {c} : call'[d] = call[d]
<1>1. call[c] \in CallRecord BY CallFields
<1>2. [call[c] EXCEPT !.pc = pc] \in CallRecord BY <1>1 DEF CallRecord
<1>3. call'[c] = [call[c] EXCEPT !.pc = pc] BY DEF Step, TypeOK
<1>4. /\ [call[c] EXCEPT !.pc = pc].pc = pc
      /\ [call[c] EXCEPT !.pc = pc].sock = call[c].sock
  BY <1>1 DEF CallRecord
<1>5. call' \in [Calls -> CallRecord] BY <1>2 DEF Step, TypeOK
<1>6. QED BY <1>3, <1>4, <1>5 DEF Step, TypeOK

(* A handler that finishes is idle. *)
LEMMA FinishFields ==
  ASSUME TypeOK, NEW c \in Calls, Finish(c)
  PROVE  /\ call' \in [Calls -> CallRecord]
         /\ call'[c].pc = "idle"
         /\ \A d \in Calls \ {c} : call'[d] = call[d]
BY IdleFields DEF Finish, TypeOK

(* hasHostPresent only notes its answer. *)
LEMMA CheckFields ==
  ASSUME TypeOK, NEW c \in Calls, HasHostPresent(c)
  PROVE  /\ call' \in [Calls -> CallRecord]
         /\ call'[c].pc = "checked" /\ call'[c].sock = call[c].sock
         /\ \A d \in Calls \ {c} : call'[d] = call[d]
<1>1. call[c] \in CallRecord BY CallFields
<1>2. PICK b \in BOOLEAN : call' = [call EXCEPT ![c].pc = "checked", ![c].yes = b]
  BY DEF HasHostPresent
<1>3. call'[c] = [call[c] EXCEPT !.pc = "checked", !.yes = b] BY <1>2 DEF TypeOK
<1>4. /\ [call[c] EXCEPT !.pc = "checked", !.yes = b] \in CallRecord
      /\ [call[c] EXCEPT !.pc = "checked", !.yes = b].pc = "checked"
      /\ [call[c] EXCEPT !.pc = "checked", !.yes = b].sock = call[c].sock
  BY <1>1, Names DEF CallRecord
<1>5. call' \in [Calls -> CallRecord] BY <1>2, <1>4 DEF TypeOK
<1>6. QED BY <1>2, <1>3, <1>4, <1>5 DEF TypeOK

-----------------------------------------------------------------------------
(* Types. *)

(* The events keep the pages typed. *)
LEMMA EventTypes ==
  ASSUME TypeOK
  PROVE  /\ \A R, answer : answer \in Views /\ Resolve(R, answer) => view' \in [Pages -> Views]
         /\ \A u \in Users : ShowKnock(u) \/ HideKnock(u) => list' \in [Pages -> SUBSET Users]
         /\ \A v \in Servers, u \in Users :
              RemoveKnock(v, u) => pendingKnocks' \in [Servers -> SUBSET Sockets]
BY DEF TypeOK, Resolve, ShowKnock, HideKnock, RemoveKnock

(* The steps of the handlers keep the types. *)
LEMMA HandlerStepType ==
  ASSUME TypeOK, NEW c \in Calls, HandlerStep(c)
  PROVE  TypeOK'
<1> USE Names, CallFields DEF TypeOK
<1>0. "retry" \in Views /\ "denied" \in Views /\ "admitted" \in Views BY DEF Views
<1>1. CASE Joined(c)
  <2>1. call' \in [Calls -> CallRecord] BY <1>1, StepFields, FinishFields DEF Joined
  <2>2. QED BY <1>1, <2>1 DEF Joined
<1>2. CASE HostJoined(c)
  <2>1. call' \in [Calls -> CallRecord] BY <1>2, StepFields DEF HostJoined
  <2>2. QED BY <1>2, <2>1 DEF HostJoined
<1>3. CASE Replay(c)
  <2>1. call' \in [Calls -> CallRecord] BY <1>3, FinishFields DEF Replay
  <2>2. {UserOf[t] : t \in pendingKnocks[ServerOf[call[c].sock]]} \subseteq Users
    BY KnockAssumption DEF KnockAssumption
  <2>3. list' \in [Pages -> SUBSET Users] BY <1>3, <2>2 DEF Replay
  <2>4. unheard' \subseteq Pages BY <1>3 DEF Replay
  <2>5. QED BY <1>3, <2>1, <2>3, <2>4 DEF Replay
<1>4. CASE Fails(c)
  <2>1. call' \in [Calls -> CallRecord] BY <1>4, FinishFields DEF Fails
  <2>2. unheard' \subseteq Pages BY <1>4 DEF Fails
  <2>3. QED BY <1>4, <2>1, <2>2 DEF Fails
<1>5. CASE HasHostPresent(c)
  <2>1. call' \in [Calls -> CallRecord] BY <1>5, CheckFields
  <2>2. QED BY <1>5, <2>1 DEF HasHostPresent
<1>6. CASE NoHost(c)
  <2>1. call' \in [Calls -> CallRecord] BY <1>6, FinishFields DEF NoHost
  <2>2. view' \in [Pages -> Views] BY <1>0, <1>6, EventTypes DEF NoHost
  <2>3. QED BY <1>6, <2>1, <2>2 DEF NoHost
<1>7. CASE ParkKnock(c)
  <2>1. call' \in [Calls -> CallRecord] BY <1>7, FinishFields DEF ParkKnock
  <2>2. list' \in [Pages -> SUBSET Users] BY <1>7, EventTypes DEF ParkKnock
  <2>3. pendingKnocks' \in [Servers -> SUBSET Sockets] BY <1>7 DEF ParkKnock
  <2>4. QED BY <1>7, <2>1, <2>2, <2>3 DEF ParkKnock
<1>8. CASE Responded(c)
  <2>1. call' \in [Calls -> CallRecord] BY <1>8, FinishFields DEF Responded
  <2>2. pendingKnocks' \in [Servers -> SUBSET Sockets] BY <1>8, EventTypes DEF Responded
  <2>3. list' \in [Pages -> SUBSET Users] BY <1>8, EventTypes DEF Responded
  <2>4. view' \in [Pages -> Views]
    <3>1. (IF call[c].yes THEN "admitted" ELSE "denied") \in Views BY <1>0
    <3>2. QED BY <1>8, <3>1, EventTypes DEF Responded
  <2>5. QED BY <1>8, <2>1, <2>2, <2>3, <2>4 DEF Responded
<1>9. QED BY <1>1, <1>2, <1>3, <1>4, <1>5, <1>6, <1>7, <1>8 DEF HandlerStep

(* So do the events that start a handler. *)
LEMMA ArrivalType ==
  ASSUME TypeOK, NEW c \in Calls, NEW s \in Sockets, Arrival(c, s)
  PROVE  TypeOK'
<1> USE Names DEF TypeOK
<1>0. Host \in Users /\ FALSE \in BOOLEAN BY KnockAssumption DEF KnockAssumption
<1>1. CASE Join(c, s)
  <2>1. call' \in [Calls -> CallRecord] BY <1>0, <1>1, BeginFields DEF Join
  <2>2. QED BY <1>1, <2>1 DEF Join
<1>2. CASE Knock(c, s)
  <2>1. call' \in [Calls -> CallRecord] BY <1>0, <1>2, BeginFields DEF Knock
  <2>2. view' \in [Pages -> Views] BY <1>2 DEF Knock, Views
  <2>3. unheard' \subseteq Pages BY <1>2 DEF Knock
  <2>4. QED BY <1>2, <2>1, <2>2, <2>3 DEF Knock
<1>3. ASSUME NEW u \in Users, NEW yes \in BOOLEAN, Respond(c, s, u, yes)
      PROVE  TypeOK'
  <2>1. call' \in [Calls -> CallRecord] BY <1>3, BeginFields DEF Respond
  <2>2. list' \in [Pages -> SUBSET Users] BY <1>3 DEF Respond
  <2>3. QED BY <1>3, <2>1, <2>2 DEF Respond
<1>4. QED BY <1>1, <1>2, <1>3 DEF Arrival

(* So does every other step. *)
LEMMA TypeStep ==
  ASSUME TypeOK, [Next]_vars
  PROVE  TypeOK'
<1> USE KnockAssumption DEF TypeOK, KnockAssumption
<1>1. ASSUME NEW c \in Calls, HandlerStep(c) PROVE TypeOK' BY <1>1, HandlerStepType
<1>2. ASSUME NEW c \in Calls, NEW s \in Sockets, Arrival(c, s) PROVE TypeOK'
  BY <1>2, ArrivalType
<1>3. ASSUME NEW s \in Sockets, Connect(s) PROVE TypeOK' BY <1>3 DEF Connect
<1>4. ASSUME NEW s \in Sockets, KnockCancel(s) PROVE TypeOK'
  <2>1. view' \in [Pages -> Views] BY <1>4 DEF KnockCancel, Views
  <2>2. pendingKnocks' \in [Servers -> SUBSET Sockets] BY <1>4, EventTypes DEF KnockCancel
  <2>3. list' \in [Pages -> SUBSET Users] BY <1>4, EventTypes DEF KnockCancel
  <2>4. QED BY <1>4, <2>1, <2>2, <2>3 DEF KnockCancel
<1>5. ASSUME NEW s \in Sockets, Disconnect(s) PROVE TypeOK'
  <2>1. unheard' \subseteq Pages BY <1>5 DEF Disconnect
  <2>2. pendingKnocks' \in [Servers -> SUBSET Sockets] BY <1>5 DEF Disconnect
  <2>3. list' \in [Pages -> SUBSET Users] BY <1>5 DEF Disconnect
  <2>4. closing' \in [Sockets -> {"no", "host", "deny"}] BY <1>5 DEF Disconnect
  <2>5. QED BY <1>5, <2>1, <2>2, <2>3, <2>4 DEF Disconnect
<1>6. ASSUME NEW s \in Sockets, CloseHost(s) PROVE TypeOK'
  BY <1>6 DEF CloseHost
<1>7. ASSUME NEW s \in Sockets, DenyAllPending(s) PROVE TypeOK'
  <2>1. view' \in [Pages -> Views] BY <1>7, EventTypes DEF DenyAllPending, Views
  <2>2. QED BY <1>7, <2>1 DEF DenyAllPending
<1>8. CASE UNCHANGED vars BY <1>8 DEF vars
<1>9. QED BY <1>1, <1>2, <1>3, <1>4, <1>5, <1>6, <1>7, <1>8 DEF Next, CloseStep

-----------------------------------------------------------------------------
(* The parked knocks and the host room. *)

(* The steps of Next, one by one. *)
LEMMA Steps ==
  ASSUME [Next]_vars
  PROVE  \/ \E c \in Calls : HandlerStep(c)
         \/ \E c \in Calls, s \in Sockets :
              \/ Join(c, s) \/ Knock(c, s)
              \/ \E u \in Users \ {Host}, yes \in BOOLEAN : Respond(c, s, u, yes)
         \/ \E s \in Sockets : Connect(s) \/ KnockCancel(s)
         \/ \E s \in Sockets : CloseHost(s) \/ DenyAllPending(s)
         \/ \E s \in Sockets : Disconnect(s)
         \/ UNCHANGED vars
BY DEF Next, Arrival, CloseStep

(* A step removes parked knocks, or one handler parks its own in place of  *)
(* any other of its user.                                                  *)
LEMMA PendingStep ==
  ASSUME TypeOK, [Next]_vars
  PROVE  \/ \A v \in Servers : pendingKnocks'[v] \subseteq pendingKnocks[v]
         \/ \E c \in Calls : ParkKnock(c)
<1> USE DEF TypeOK
<1>1. ASSUME NEW c \in Calls, HandlerStep(c), ~ParkKnock(c)
      PROVE  \A v \in Servers : pendingKnocks'[v] \subseteq pendingKnocks[v]
  BY <1>1 DEF HandlerStep, Joined, HostJoined, Replay, Fails, HasHostPresent, NoHost,
              Responded, RemoveKnock
<1>2. ASSUME NEW c \in Calls, NEW s \in Sockets,
             \/ Join(c, s) \/ Knock(c, s)
             \/ \E u \in Users \ {Host}, yes \in BOOLEAN : Respond(c, s, u, yes)
      PROVE  UNCHANGED pendingKnocks
  BY <1>2 DEF Join, Knock, Respond
<1>3. ASSUME NEW s \in Sockets, Connect(s) \/ KnockCancel(s)
      PROVE  \A v \in Servers : pendingKnocks'[v] \subseteq pendingKnocks[v]
  BY <1>3 DEF Connect, KnockCancel, RemoveKnock
<1>4. ASSUME NEW s \in Sockets, CloseHost(s) \/ DenyAllPending(s)
      PROVE  \A v \in Servers : pendingKnocks'[v] \subseteq pendingKnocks[v]
  BY <1>4 DEF CloseHost, DenyAllPending
<1>5. ASSUME NEW s \in Sockets, Disconnect(s)
      PROVE  \A v \in Servers : pendingKnocks'[v] \subseteq pendingKnocks[v]
  BY <1>5 DEF Disconnect
<1>6. ASSUME UNCHANGED vars PROVE UNCHANGED pendingKnocks BY <1>6 DEF vars
<1>7. QED BY <1>1, <1>2, <1>3, <1>4, <1>5, <1>6, Steps

(* Parked knocks stay in place, one for each user of a process. *)
LEMMA ParkedStep ==
  ASSUME TypeOK, Parked, [Next]_vars
  PROVE  Parked'
<1>1. CASE \A v \in Servers : pendingKnocks'[v] \subseteq pendingKnocks[v]
  BY <1>1 DEF Parked
<1>2. ASSUME NEW c \in Calls, ParkKnock(c) PROVE Parked'
  <2> DEFINE t == call[c].sock
             w == ServerOf[t]
  <2>1. t \in Sockets /\ w \in Servers BY CallFields
  <2>2. pendingKnocks'[w] = (pendingKnocks[w] \ OfUser(UserOf[t])) \cup {t}
    BY <1>2, <2>1 DEF ParkKnock, TypeOK
  <2>3. \A v \in Servers \ {w} : pendingKnocks'[v] = pendingKnocks[v]
    BY <1>2, <2>1 DEF ParkKnock, TypeOK
  <2>4. \A r \in pendingKnocks[w] \ OfUser(UserOf[t]) : UserOf[r] # UserOf[t]
    BY <2>1 DEF OfUser, TypeOK
  <2>5. ASSUME NEW v \in Servers, NEW r \in pendingKnocks'[v], NEW q \in pendingKnocks'[v]
        PROVE  ServerOf[r] = v /\ (UserOf[r] = UserOf[q] => r = q)
    BY <2>1, <2>2, <2>3, <2>4 DEF Parked
  <2>6. QED BY <2>5 DEF Parked
<1>3. QED BY <1>1, <1>2, PendingStep

(* Nobody but connected hosts gets into the host room. *)
LEMMA HostsOnlyStep ==
  ASSUME TypeOK, HostsOnly, [Next]_vars
  PROVE  HostsOnly'
<1> USE CallFields, Names DEF HostsOnly
<1>1. ASSUME NEW c \in Calls, HandlerStep(c) PROVE HostsOnly'
  <2>1. UNCHANGED conn
    BY <1>1 DEF HandlerStep, Joined, HostJoined, Replay, Fails, HasHostPresent, NoHost,
                ParkKnock, Responded
  <2>2. \A d \in Calls \ {c} : call'[d] = call[d]
    BY <1>1, StepFields, FinishFields, CheckFields
    DEF HandlerStep, Joined, HostJoined, Replay, Fails, NoHost, ParkKnock, Responded
  <2>3. CASE Joined(c)
    <3>1. UNCHANGED hostRoom BY <2>3 DEF Joined
    <3>2. call'[c].pc \in {"joining", "host_room", "replay"} => IsHost(call'[c].sock)
      BY <2>3, StepFields, FinishFields DEF Joined
    <3>3. QED BY <2>1, <2>2, <3>1, <3>2
  <2>4. CASE HostJoined(c)
    <3>1. call'[c].sock = call[c].sock BY <2>4, StepFields DEF HostJoined
    <3>2. IsHost(call[c].sock) BY <2>4 DEF HostJoined
    <3>3. \A s \in hostRoom' : s \in hostRoom \/ (s = call[c].sock /\ conn[s] = "open")
      BY <2>4 DEF HostJoined
    <3>4. QED BY <2>1, <2>2, <3>1, <3>2, <3>3
  <2>5. CASE ~Joined(c) /\ ~HostJoined(c)
    <3>1. UNCHANGED hostRoom
      BY <1>1, <2>5 DEF HandlerStep, Replay, Fails, HasHostPresent, NoHost, ParkKnock, Responded
    <3>2. call'[c].pc \in {"idle", "checked"}
      BY <1>1, <2>5, FinishFields, CheckFields
      DEF HandlerStep, Replay, Fails, NoHost, ParkKnock, Responded
    <3>3. QED BY <2>1, <2>2, <3>1, <3>2
  <2>6. QED BY <2>3, <2>4, <2>5
<1>2. ASSUME NEW c \in Calls, NEW s \in Sockets, NEW pc \in PCs, NEW u \in Users,
             NEW yes \in BOOLEAN, Begin(c, s, pc, u, yes),
             pc \in {"joining", "host_room", "replay"} => IsHost(s),
             UNCHANGED <<conn, hostRoom>>
      PROVE  HostsOnly'
  BY <1>2, BeginFields
<1>3. ASSUME NEW c \in Calls, NEW s \in Sockets,
             \/ Join(c, s) \/ Knock(c, s)
             \/ \E u \in Users \ {Host}, yes \in BOOLEAN : Respond(c, s, u, yes)
      PROVE  HostsOnly'
  <2>1. Host \in Users /\ FALSE \in BOOLEAN BY KnockAssumption DEF KnockAssumption
  <2>2. PICK pc \in {"joining", "knocking", "respond"}, u \in Users, yes \in BOOLEAN :
          Begin(c, s, pc, u, yes) /\ (pc = "joining" => IsHost(s))
    BY <1>3, <2>1 DEF Join, Knock, Respond
  <2>3. UNCHANGED <<conn, hostRoom>> BY <1>3 DEF Join, Knock, Respond
  <2>4. QED BY <1>2, <2>2, <2>3
<1>4. ASSUME NEW s \in Sockets, Connect(s) \/ KnockCancel(s) PROVE HostsOnly'
  BY <1>4 DEF Connect, KnockCancel, TypeOK
<1>5. ASSUME NEW s \in Sockets, CloseHost(s) \/ DenyAllPending(s)
      PROVE  HostsOnly'
  BY <1>5 DEF CloseHost, DenyAllPending
<1>6. ASSUME NEW s \in Sockets, Disconnect(s)
      PROVE  HostsOnly'
  BY <1>6 DEF Disconnect, TypeOK
<1>7. CASE UNCHANGED vars BY <1>7 DEF vars
<1>8. QED BY <1>1, <1>3, <1>4, <1>5, <1>6, <1>7, Steps

-----------------------------------------------------------------------------
(* Nobody waits for nothing. *)

(* What KNOCK_RESOLVED does to one page. *)
LEMMA Resolved ==
  ASSUME TypeOK, NEW R, NEW answer, Resolve(R, answer), NEW p \in Pages
  PROVE  /\ view'[p] \in {view[p], answer}
         /\ view[p] = "waiting" =>
              \A s \in R : PageOf[s] = p /\ conn[s] = "open" => view'[p] = answer
BY DEF Resolve, TypeOK

(* No step leaves a waiting page without its knock. *)
LEMMA WaitingStep ==
  ASSUME TypeOK, HostsOnly, PagesInv, WaitingIsParked, [Next]_vars
  PROVE  WaitingIsParked'
<1> SUFFICES ASSUME NEW s \in Sockets, conn'[s] = "open", view'[PageOf[s]] = "waiting",
                    OnlyTab(PageOf[s]), PageOf[s] \notin unheard',
                    ~\E c \in Calls : /\ PageOf[call'[c].sock] = PageOf[s]
                                      /\ call'[c].pc \in {"knocking", "checked"}
             PROVE  s \in pendingKnocks'[ServerOf[s]]
  BY DEF WaitingIsParked, Knocking, OnlyTab
<1> DEFINE p == PageOf[s]
<1> USE CallFields, Names DEF TypeOK
<1>0. ServerOf[s] \in Servers /\ UserOf[s] \in Users /\ p \in Pages
  BY KnockAssumption DEF KnockAssumption
<1>a. ASSUME conn[s] = "open", view[p] = "waiting", p \notin unheard,
             \A c \in Calls : call'[c] = call[c] \/ PageOf[call[c].sock] # p
                               \/ call[c].pc \notin {"knocking", "checked"}
      PROVE  s \in pendingKnocks[ServerOf[s]]
  BY <1>a DEF WaitingIsParked, Knocking
<1>1. ASSUME NEW c \in Calls, HandlerStep(c) PROVE s \in pendingKnocks'[ServerOf[s]]
  <2>1. \A d \in Calls \ {c} : call'[d] = call[d]
    BY <1>1, StepFields, FinishFields, CheckFields
    DEF HandlerStep, Joined, HostJoined, Replay, Fails, NoHost, ParkKnock, Responded
  <2>2. conn[s] = "open"
    BY <1>1 DEF HandlerStep, Joined, HostJoined, Replay, Fails, HasHostPresent, NoHost,
                ParkKnock, Responded
  <2>3. CASE Joined(c) \/ HostJoined(c)
    <3>1. call[c].pc \notin {"knocking", "checked"} /\ UNCHANGED <<view, pendingKnocks, unheard>>
      BY <2>3 DEF Joined, HostJoined
    <3>2. QED BY <1>a, <2>1, <2>2, <3>1
  <2>4. CASE Replay(c)
    <3>1. call[c].pc \notin {"knocking", "checked"} /\ UNCHANGED <<view, pendingKnocks>>
      BY <2>4 DEF Replay
    <3>2. PageOf[call[c].sock] # p
      BY <2>4, <3>1 DEF HostsOnly, PagesInv, HostsOut, Replay
    <3>3. p \notin unheard BY <2>4, <3>2 DEF Replay
    <3>4. QED BY <1>a, <2>1, <2>2, <3>1, <3>3
  <2>5. CASE HasHostPresent(c)
    <3>1. PageOf[call[c].sock] # p BY <2>5, CheckFields
    <3>2. UNCHANGED <<view, pendingKnocks, unheard>> BY <2>5 DEF HasHostPresent
    <3>3. QED BY <1>a, <2>1, <2>2, <3>1, <3>2
  <2>6. CASE NoHost(c)
    <3> DEFINE t == call[c].sock
    <3>1. /\ Resolve({t}, "retry") /\ UNCHANGED <<pendingKnocks, unheard>>
          /\ call[c].pc = "checked"
      BY <2>6 DEF NoHost
    <3>2. view[p] = "waiting" BY <1>0, <3>1, Resolved
    <3>3. PageOf[t] # p
      <4>1. ASSUME PageOf[t] = p PROVE conn[t] = "open"
        BY <3>1, <4>1 DEF PagesInv, KnocksOpen
      <4>2. QED BY <1>0, <3>1, <3>2, <4>1, Resolved
    <3>4. QED BY <1>a, <2>1, <2>2, <3>1, <3>2, <3>3
  <2>7. CASE ParkKnock(c)
    <3> DEFINE t == call[c].sock
    <3>1. t \in Sockets /\ ServerOf[t] \in Servers
      OBVIOUS
    <3>2. /\ pendingKnocks' = [pendingKnocks EXCEPT
               ![ServerOf[t]] = (@ \ OfUser(UserOf[t])) \cup {t}]
          /\ UNCHANGED <<view, unheard>> /\ call[c].pc = "checked"
      BY <2>7 DEF ParkKnock
    <3>3. CASE t = s BY <1>0, <3>2, <3>3
    <3>4. CASE t # s
      <4>1. PageOf[t] # p
        BY <2>2, <3>1, <3>2, <3>4 DEF PagesInv, KnocksOpen, OneOpen
      <4>2. s \in pendingKnocks[ServerOf[s]] BY <1>a, <2>1, <2>2, <3>2, <4>1
      <4>3. s \notin OfUser(UserOf[t]) BY <3>1, <4>1 DEF OnlyTab, OfUser
      <4>4. QED BY <1>0, <3>1, <3>2, <4>2, <4>3
    <3>5. QED BY <3>3, <3>4
  <2>8. CASE Responded(c)
    <3> DEFINE v == ServerOf[call[c].sock]
               u == call[c].target
               answer == IF call[c].yes THEN "admitted" ELSE "denied"
    <3>1. call[c].pc = "respond" /\ UNCHANGED unheard BY <2>8 DEF Responded
    <3>2. CASE UNCHANGED <<pendingKnocks, view>> BY <1>a, <2>1, <2>2, <3>1, <3>2
    <3>3. CASE RemoveKnock(v, u) /\ Resolve(pendingKnocks[v] \cap OfUser(u), answer)
      <4>1. view[p] = "waiting" /\ s \notin pendingKnocks[v] \cap OfUser(u)
        <5>1. view'[p] # answer OBVIOUS
        <5>2. QED BY <1>0, <2>2, <3>3, <5>1, Resolved
      <4>2. s \in pendingKnocks[ServerOf[s]] BY <1>a, <2>1, <2>2, <3>1, <4>1
      <4>3. QED BY <1>0, <3>3, <4>1, <4>2 DEF RemoveKnock
    <3>4. QED BY <2>8, <3>2, <3>3 DEF Responded
  <2>9. CASE Fails(c)
    <3>1. UNCHANGED <<view, pendingKnocks>> BY <2>9 DEF Fails
    <3>2. PageOf[call[c].sock] # p /\ p \notin unheard BY <2>9, <3>1 DEF Fails
    <3>3. QED BY <1>a, <2>1, <2>2, <3>1, <3>2
  <2>10. QED BY <1>1, <2>3, <2>4, <2>5, <2>6, <2>7, <2>8, <2>9 DEF HandlerStep
<1>2. ASSUME NEW c \in Calls, NEW t \in Sockets, Knock(c, t)
      PROVE  s \in pendingKnocks'[ServerOf[s]]
  <2>1. Host \in Users /\ FALSE \in BOOLEAN BY KnockAssumption DEF KnockAssumption
  <2>a. Begin(c, t, "knocking", Host, FALSE) BY <1>2 DEF Knock
  <2>2. /\ call'[c].pc = "knocking" /\ call'[c].sock = t /\ call[c].pc = "idle"
        /\ \A d \in Calls \ {c} : call'[d] = call[d]
    BY <2>1, <2>a, BeginFields
  <2>3. p # PageOf[t] BY <2>2
  <2>4. view[p] = "waiting" /\ conn[s] = "open" /\ p \notin unheard /\ UNCHANGED pendingKnocks
    BY <1>0, <1>2, <2>3 DEF Knock
  <2>5. QED BY <1>a, <2>2, <2>4
<1>3. ASSUME NEW c \in Calls, NEW t \in Sockets,
             \/ Join(c, t)
             \/ \E u \in Users \ {Host}, yes \in BOOLEAN : Respond(c, t, u, yes)
      PROVE  s \in pendingKnocks'[ServerOf[s]]
  <2>1. /\ call[c].pc = "idle" /\ UNCHANGED <<conn, view, pendingKnocks, unheard>>
        /\ \A d \in Calls \ {c} : call'[d] = call[d]
    BY <1>3 DEF Join, Respond, Begin
  <2>2. QED BY <1>a, <2>1
<1>4. ASSUME NEW t \in Sockets, Connect(t) PROVE s \in pendingKnocks'[ServerOf[s]]
  <2>1. UNCHANGED <<view, call, pendingKnocks, unheard>> BY <1>4 DEF Connect
  <2>2. PICK r \in Sockets : PageOf[r] = p /\ conn[r] = "open"
    BY <1>0, <2>1 DEF PagesInv, WaitsOpen
  <2>3. conn[s] = "open" BY <1>4, <2>2 DEF Connect
  <2>4. QED BY <1>a, <2>1, <2>3
<1>5. ASSUME NEW t \in Sockets, KnockCancel(t) PROVE s \in pendingKnocks'[ServerOf[s]]
  <2>1. PageOf[t] # p /\ view[p] = "waiting" /\ UNCHANGED <<call, conn, unheard>>
    BY <1>0, <1>5 DEF KnockCancel
  <2>2. s \in pendingKnocks[ServerOf[s]] BY <1>a, <2>1
  <2>3. s \notin OfUser(UserOf[t]) BY <2>1 DEF OnlyTab, OfUser
  <2>4. QED BY <1>0, <1>5, <2>2, <2>3 DEF KnockCancel, RemoveKnock
<1>6. ASSUME NEW t \in Sockets, CloseHost(t)
      PROVE  s \in pendingKnocks'[ServerOf[s]]
  BY <1>6, <1>a DEF CloseHost
<1>7. ASSUME NEW t \in Sockets, DenyAllPending(t) PROVE s \in pendingKnocks'[ServerOf[s]]
  <2>1. Resolve(pendingKnocks[ServerOf[t]], "retry") /\ UNCHANGED <<call, conn, unheard>>
    BY <1>7 DEF DenyAllPending
  <2>2. view[p] = "waiting" /\ s \notin pendingKnocks[ServerOf[t]] BY <1>0, <2>1, Resolved
  <2>3. s \in pendingKnocks[ServerOf[s]] BY <1>a, <2>1, <2>2
  <2>4. QED BY <1>0, <1>7, <2>2, <2>3 DEF DenyAllPending
<1>8. ASSUME NEW t \in Sockets, Disconnect(t)
      PROVE  s \in pendingKnocks'[ServerOf[s]]
  <2>1. t # s /\ view[p] = "waiting" /\ conn[s] = "open" /\ p \notin unheard /\ UNCHANGED call
    BY <1>8 DEF Disconnect
  <2>2. s \in pendingKnocks[ServerOf[s]] BY <1>a, <2>1
  <2>3. QED BY <1>0, <1>8, <2>1, <2>2 DEF Disconnect
<1>9. CASE UNCHANGED vars BY <1>9, <1>a DEF vars
<1>10. QED BY <1>1, <1>2, <1>3, <1>4, <1>5, <1>6, <1>7, <1>8, <1>9, Steps

(* Sockets open and close one by one.  *)
LEMMA ConnStep ==
  ASSUME [Next]_vars
  PROVE  UNCHANGED conn \/ \E s \in Sockets : Connect(s) \/ Disconnect(s)
BY Steps
DEF HandlerStep, Joined, HostJoined, Replay, Fails, HasHostPresent, NoHost, ParkKnock, Responded,
    Join, Knock, Respond, KnockCancel, CloseHost, DenyAllPending, vars

(* A page waits only after a knock of it, and unheard is cleared by a new  *)
(* knock, or by a replay on a host's page.                                 *)
LEMMA ViewStep ==
  ASSUME TypeOK, HostsOnly, [Next]_vars, NEW p \in Pages
  PROVE  /\ view'[p] = "waiting" /\ view[p] # "waiting" =>
              \E c \in Calls, s \in Sockets : Knock(c, s) /\ PageOf[s] = p
         /\ p \in unheard /\ p \notin unheard' =>
              \/ \E c \in Calls, s \in Sockets :
                   Knock(c, s) /\ PageOf[s] = p /\ ~Knocking(p)
              \/ \E c \in Calls : /\ call[c].pc = "replay" /\ IsHost(call[c].sock)
                                  /\ PageOf[call[c].sock] = p /\ UNCHANGED <<conn, view>>
         /\ (\A s \in Sockets : IsHost(s) => PageOf[s] # p) \/ view[p] # "out" \/ view'[p] = "out"
<1> USE DEF TypeOK
<1>1. ASSUME NEW c \in Calls, HandlerStep(c), ~Replay(c)
      PROVE  /\ UNCHANGED view \/ \E R, answer : answer # "waiting" /\ Resolve(R, answer)
             /\ unheard \subseteq unheard'
  BY <1>1 DEF HandlerStep, Joined, HostJoined, Fails, HasHostPresent, NoHost, ParkKnock,
              Responded
<1>2. ASSUME NEW R, NEW answer, answer # "waiting", Resolve(R, answer)
      PROVE  /\ view'[p] = "waiting" => view[p] = "waiting"
             /\ view[p] = "out" => view'[p] = "out"
  BY <1>2 DEF Resolve
<1>3. ASSUME NEW c \in Calls, Replay(c)
      PROVE  /\ call[c].pc = "replay" /\ IsHost(call[c].sock) /\ UNCHANGED <<conn, view>>
             /\ p \in unheard /\ p \notin unheard' => PageOf[call[c].sock] = p
  BY <1>3 DEF Replay, HostsOnly
<1>4. ASSUME NEW c \in Calls, NEW t \in Sockets, Knock(c, t)
      PROVE  /\ view'[p] # view[p] => PageOf[t] = p
             /\ p \in unheard /\ p \notin unheard' => PageOf[t] = p /\ ~Knocking(p)
             /\ \A s \in Sockets : IsHost(s) => PageOf[s] # PageOf[t]
  BY <1>4, KnockAssumption DEF Knock, KnockAssumption, IsHost
<1>5. ASSUME NEW c \in Calls, NEW t \in Sockets,
             \/ Join(c, t)
             \/ \E u \in Users \ {Host}, yes \in BOOLEAN : Respond(c, t, u, yes)
      PROVE  UNCHANGED <<view, unheard>>
  BY <1>5 DEF Join, Respond
<1>6. ASSUME NEW t \in Sockets, Connect(t) \/ CloseHost(t) PROVE UNCHANGED <<view, unheard>>
  BY <1>6 DEF Connect, CloseHost
<1>7. ASSUME NEW t \in Sockets, KnockCancel(t)
      PROVE  UNCHANGED unheard /\ view'[p] \in {view[p], "out"}
  BY <1>7 DEF KnockCancel
<1>8. ASSUME NEW t \in Sockets, Disconnect(t) PROVE UNCHANGED view /\ unheard \subseteq unheard'
  BY <1>8 DEF Disconnect
<1>9. ASSUME NEW t \in Sockets, DenyAllPending(t)
      PROVE  UNCHANGED unheard /\ \E R, answer : answer # "waiting" /\ Resolve(R, answer)
  BY <1>9 DEF DenyAllPending
<1>10. CASE UNCHANGED vars BY <1>10 DEF vars
<1>11. CASE \E c \in Calls : HandlerStep(c) BY <1>1, <1>2, <1>3, <1>11
<1>12. CASE \E c \in Calls, t \in Sockets : Knock(c, t) BY <1>4, <1>12
<1>13. CASE \E t \in Sockets : DenyAllPending(t) BY <1>2, <1>9, <1>13
<1>14. QED BY <1>5, <1>6, <1>7, <1>8, <1>10, <1>11, <1>12, <1>13, Steps

(* No knock is under way on a lost connection but one that is unheard. *)
LEMMA KnocksOpenStep ==
  ASSUME TypeOK, HostsOnly, KnocksOpen, [Next]_vars
  PROVE  KnocksOpen'
<1> SUFFICES ASSUME NEW d \in Calls, call'[d].pc \in {"knocking", "checked"}
             PROVE  /\ ~IsHost(call'[d].sock)
                    /\ conn'[call'[d].sock] = "open" \/ PageOf[call'[d].sock] \in unheard'
  BY DEF KnocksOpen
<1> USE CallFields, Names DEF TypeOK
<1>a. ASSUME call[d].pc \in {"knocking", "checked"}, call'[d].sock = call[d].sock
      PROVE  /\ ~IsHost(call'[d].sock)
             /\ conn'[call'[d].sock] = "open" \/ PageOf[call'[d].sock] \in unheard'
  <2> DEFINE r == call[d].sock
             p == PageOf[r]
  <2>1. r \in Sockets /\ p \in Pages /\ ~IsHost(r) /\ (conn[r] = "open" \/ p \in unheard)
    BY <1>a DEF KnocksOpen
  <2>2. Knocking(p) BY <1>a DEF Knocking
  <2>3. p \in unheard => p \in unheard'
    BY <2>1, <2>2, ViewStep, KnockAssumption DEF IsHost, KnockAssumption
  <2>4. conn[r] = "open" => conn'[r] = "open" \/ p \in unheard'
    <3>1. ASSUME NEW t \in Sockets, Connect(t), conn[r] = "open" PROVE conn'[r] = "open"
      BY <2>1, <3>1 DEF Connect
    <3>2. ASSUME NEW t \in Sockets, Disconnect(t), conn[r] = "open"
          PROVE  conn'[r] = "open" \/ p \in unheard'
      BY <2>1, <2>2, <3>2 DEF Disconnect
    <3>3. QED BY <3>1, <3>2, ConnStep
  <2>5. QED BY <1>a, <2>1, <2>3, <2>4
<1>1. ASSUME NEW c \in Calls, HandlerStep(c)
      PROVE  call[d].pc \in {"knocking", "checked"} /\ call'[d].sock = call[d].sock
  <2>1. \A e \in Calls \ {c} : call'[e] = call[e]
    BY <1>1, StepFields, FinishFields, CheckFields
    DEF HandlerStep, Joined, HostJoined, Replay, Fails, NoHost, ParkKnock, Responded
  <2>2. CASE HasHostPresent(c) BY <2>1, <2>2, CheckFields DEF HasHostPresent
  <2>3. CASE ~HasHostPresent(c)
    <3>1. call'[c].pc \in {"idle", "host_room", "replay"}
      BY <1>1, <2>3, StepFields, FinishFields
      DEF HandlerStep, Joined, HostJoined, Replay, Fails, NoHost, ParkKnock, Responded
    <3>2. QED BY <2>1, <3>1
  <2>4. QED BY <2>2, <2>3
<1>2. ASSUME NEW c \in Calls, NEW t \in Sockets,
             \/ Join(c, t)
             \/ \E u \in Users \ {Host}, yes \in BOOLEAN : Respond(c, t, u, yes)
      PROVE  call[d].pc \in {"knocking", "checked"} /\ call'[d].sock = call[d].sock
  <2>1. Host \in Users /\ FALSE \in BOOLEAN BY KnockAssumption DEF KnockAssumption
  <2>a. PICK pc \in {"joining", "respond"}, u \in Users, yes \in BOOLEAN :
          Begin(c, t, pc, u, yes)
    BY <1>2, <2>1 DEF Join, Respond
  <2>2. /\ call'[c].pc \in {"joining", "respond"}
        /\ \A e \in Calls \ {c} : call'[e] = call[e]
    BY <2>a, BeginFields
  <2>3. QED BY <2>2
<1>3. ASSUME NEW c \in Calls, NEW t \in Sockets, Knock(c, t)
      PROVE  \/ call[d].pc \in {"knocking", "checked"} /\ call'[d].sock = call[d].sock
             \/ conn'[call'[d].sock] = "open" /\ ~IsHost(call'[d].sock)
  <2>1. Host \in Users /\ FALSE \in BOOLEAN BY KnockAssumption DEF KnockAssumption
  <2>a. Begin(c, t, "knocking", Host, FALSE) /\ ~IsHost(t) /\ UNCHANGED conn
    BY <1>3 DEF Knock
  <2>2. /\ call'[c].sock = t /\ conn[t] = "open" /\ ~IsHost(t) /\ UNCHANGED conn
        /\ \A e \in Calls \ {c} : call'[e] = call[e]
    BY <2>1, <2>a, BeginFields
  <2>3. QED BY <2>2
<1>4. ASSUME UNCHANGED call
      PROVE  call[d].pc \in {"knocking", "checked"} /\ call'[d].sock = call[d].sock
  BY <1>4
<1>5. QED
  BY <1>a, <1>1, <1>2, <1>3, <1>4, Steps
  DEF Connect, KnockCancel, CloseHost, DenyAllPending, Disconnect, vars

(* Pages keep to one connection, and wait on it. *)
LEMMA PagesStep ==
  ASSUME TypeOK, HostsOnly, PagesInv, [Next]_vars
  PROVE  PagesInv'
<1> USE DEF TypeOK
<1>1. OneOpen'
  <2>1. ASSUME NEW s \in Sockets, Connect(s) PROVE OneOpen'
    BY <2>1 DEF PagesInv, OneOpen, Connect
  <2>2. ASSUME NEW s \in Sockets, Disconnect(s) PROVE OneOpen'
    BY <2>2 DEF PagesInv, OneOpen, Disconnect
  <2>3. CASE UNCHANGED conn BY <2>3 DEF PagesInv, OneOpen
  <2>4. QED BY <2>1, <2>2, <2>3, ConnStep
<1>2. WaitsOpen'
  <2> SUFFICES ASSUME NEW p \in Pages, p \notin unheard', view'[p] = "waiting"
               PROVE  \E s \in Sockets : PageOf[s] = p /\ conn'[s] = "open"
    BY DEF WaitsOpen
  <2>1. CASE \E c \in Calls, s \in Sockets : Knock(c, s) /\ PageOf[s] = p
    BY <2>1 DEF Knock, Begin
  <2>2. CASE ~\E c \in Calls, s \in Sockets : Knock(c, s) /\ PageOf[s] = p
    <3>1. view[p] = "waiting" BY <2>2, ViewStep
    <3>2. p \notin unheard BY <2>2, <3>1, ViewStep, CallFields DEF PagesInv, HostsOut
    <3>3. PICK s \in Sockets : PageOf[s] = p /\ conn[s] = "open"
      BY <3>1, <3>2 DEF PagesInv, WaitsOpen
    <3>4. ASSUME NEW t \in Sockets, Connect(t) PROVE conn'[s] = "open"
      BY <3>3, <3>4 DEF Connect
    <3>5. ASSUME NEW t \in Sockets, Disconnect(t) PROVE conn'[s] = "open"
      BY <3>1, <3>3, <3>5 DEF Disconnect
    <3>6. QED BY <3>3, <3>4, <3>5, ConnStep
  <2>3. QED BY <2>1, <2>2
<1>3. KnocksOpen' BY KnocksOpenStep DEF PagesInv
<1>4. HostsOut' BY ViewStep, KnockAssumption DEF PagesInv, HostsOut, KnockAssumption, IsHost
<1>5. QED BY <1>1, <1>2, <1>3, <1>4 DEF PagesInv

-----------------------------------------------------------------------------
(* The host sees every parked knock: on one process. *)

(* On one process no step hides a parked knock from a host. *)
LEMMA SeenStep ==
  ASSUME OneProcess, IInv, HostSeesKnocks, [Next]_vars
  PROVE  HostSeesKnocks'
<1> USE CallFields, Names DEF TypeOK, IInv
<1> DEFINE Seen(h, s) ==
      \/ UserOf[s] \in list'[PageOf[h]]
      \/ \E c \in Calls : call'[c].sock = h /\ call'[c].pc = "replay"
      \/ \E c \in Calls : /\ call'[c].sock = h /\ call'[c].pc = "respond"
                          /\ call'[c].target = UserOf[s]
      \/ PageOf[h] \in unheard'
<1> SUFFICES ASSUME NEW h \in hostRoom', NEW v \in Servers, NEW s \in pendingKnocks'[v]
             PROVE  Seen(h, s)
  BY DEF HostSeesKnocks
<1> DEFINE p == PageOf[h]
<1>0. h \in Sockets /\ s \in Sockets /\ UserOf[s] \in Users /\ p \in Pages
  <2>1. TypeOK' BY TypeStep
  <2>2. QED BY <2>1, KnockAssumption DEF KnockAssumption
<1>b. IsHost(h) /\ conn'[h] = "open"
  <2>1. HostsOnly' BY HostsOnlyStep
  <2>2. QED BY <2>1 DEF HostsOnly, IsHost
<1>a. ASSUME h \in hostRoom, s \in pendingKnocks[v],
             UserOf[s] \in list[p] => UserOf[s] \in list'[p],
             p \in unheard => p \in unheard',
             \A c \in Calls : \/ call'[c] = call[c] \/ call[c].sock # h
                              \/ call[c].pc \notin {"replay", "respond"}
                              \/ call[c].pc = "respond" /\ call[c].target # UserOf[s]
      PROVE  Seen(h, s)
  BY <1>a DEF HostSeesKnocks
<1>c. \A t \in Sockets : ~IsHost(t) => PageOf[t] # p
  BY <1>0, <1>b, KnockAssumption DEF IsHost, KnockAssumption
<1> HIDE DEF Seen
<1>1. ASSUME NEW c \in Calls, HandlerStep(c) PROVE Seen(h, s)
  <2>1. \A d \in Calls \ {c} : call'[d] = call[d]
    BY <1>1, StepFields, FinishFields, CheckFields
    DEF HandlerStep, Joined, HostJoined, Replay, Fails, NoHost, ParkKnock, Responded
  <2>2. CASE Joined(c) \/ HasHostPresent(c) \/ NoHost(c)
    <3>1. /\ call[c].pc \notin {"replay", "respond"}
          /\ UNCHANGED <<hostRoom, pendingKnocks, list, unheard>>
      BY <2>2 DEF Joined, HasHostPresent, NoHost
    <3>2. QED BY <1>a, <2>1, <3>1
  <2>3. CASE HostJoined(c)
    <3>1. call'[c].pc = "replay" /\ call'[c].sock = call[c].sock
      BY <2>3, StepFields DEF HostJoined
    <3>2. CASE call[c].sock = h BY <3>1, <3>2 DEF Seen
    <3>3. CASE call[c].sock # h
      <4>1. h \in hostRoom /\ UNCHANGED <<pendingKnocks, list, unheard>>
        BY <2>3, <3>3 DEF HostJoined
      <4>2. QED BY <1>a, <2>1, <3>3, <4>1
    <3>4. QED BY <3>2, <3>3
  <2>4. CASE Replay(c)
    <3> DEFINE t == call[c].sock
    <3>1. UNCHANGED <<hostRoom, pendingKnocks, conn>> BY <2>4 DEF Replay
    <3>2. CASE t = h
      <4>1. conn[h] = "open" BY <1>b, <3>1
      <4>2. ServerOf[h] = v BY <3>2 DEF OneProcess
      <4>3. UserOf[s] \in list'[p] BY <1>0, <2>4, <3>1, <3>2, <4>1, <4>2 DEF Replay
      <4>4. QED BY <4>3 DEF Seen
    <3>3. CASE t # h
      <4>1. CASE PageOf[t] = p
        <5>1. conn[t] # "open"
          BY <1>0, <1>b, <3>1, <3>3, <4>1 DEF PagesInv, OneOpen
        <5>2. UNCHANGED <<list, unheard>> BY <2>4, <5>1 DEF Replay
        <5>3. QED BY <1>a, <2>1, <3>1, <3>3, <5>2
      <4>2. CASE PageOf[t] # p
        <5>1. list'[p] = list[p] /\ (p \in unheard => p \in unheard')
          BY <1>0, <2>4, <4>2 DEF Replay
        <5>2. QED BY <1>a, <2>1, <3>1, <3>3, <5>1
      <4>3. QED BY <4>1, <4>2
    <3>4. QED BY <3>2, <3>3
  <2>5. CASE ParkKnock(c)
    <3> DEFINE t == call[c].sock
    <3>1. t \in Sockets /\ ServerOf[t] \in Servers
      OBVIOUS
    <3>2. /\ UNCHANGED <<hostRoom, unheard>> /\ ShowKnock(UserOf[t]) /\ call[c].pc = "checked"
          /\ pendingKnocks' = [pendingKnocks EXCEPT
               ![ServerOf[t]] = (@ \ OfUser(UserOf[t])) \cup {t}]
      BY <2>5 DEF ParkKnock
    <3>3. list'[p] = list[p] \cup {UserOf[t]} BY <1>0, <3>2 DEF ShowKnock, HostPages
    <3>4. CASE s = t BY <3>3, <3>4 DEF Seen
    <3>5. CASE s # t
      <4>1. s \in pendingKnocks[v] BY <3>1, <3>2, <3>5
      <4>2. QED BY <1>a, <2>1, <3>2, <3>3, <4>1
    <3>6. QED BY <3>4, <3>5
  <2>6. CASE Responded(c)
    <3> DEFINE u == call[c].target
    <3>1. UNCHANGED <<hostRoom, unheard>> /\ call[c].pc = "respond" BY <2>6 DEF Responded
    <3>2. CASE ~IsHost(call[c].sock)
      <4>1. UNCHANGED <<pendingKnocks, list>> BY <2>6, <3>2 DEF Responded
      <4>2. call[c].sock # h BY <1>b, <3>2
      <4>3. QED BY <1>a, <2>1, <3>1, <4>1, <4>2
    <3>3. CASE IsHost(call[c].sock)
      <4>1. ServerOf[call[c].sock] = v BY DEF OneProcess
      <4>2. RemoveKnock(v, u) /\ (HideKnock(u) \/ UNCHANGED list)
        BY <2>6, <3>3, <4>1 DEF Responded
      <4>3. s \in pendingKnocks[v] /\ UserOf[s] # u
        BY <1>0, <4>2 DEF RemoveKnock, OfUser
      <4>4. UserOf[s] \in list[p] => UserOf[s] \in list'[p]
        BY <1>0, <4>2, <4>3 DEF HideKnock
      <4>5. QED BY <1>a, <2>1, <3>1, <4>3, <4>4
    <3>4. QED BY <3>2, <3>3
  <2>7. CASE Fails(c)
    <3>1. /\ UNCHANGED <<hostRoom, pendingKnocks, list>> /\ unheard \subseteq unheard'
          /\ call[c].pc \in {"knocking", "respond"}
      BY <2>7 DEF Fails
    <3>2. CASE call[c].sock = h
      <4>1. p \in unheard' BY <1>b, <2>7, <3>2 DEF Fails
      <4>2. QED BY <4>1 DEF Seen
    <3>3. CASE call[c].sock # h BY <1>a, <2>1, <3>1, <3>3
    <3>4. QED BY <3>2, <3>3
  <2>8. QED BY <1>1, <2>2, <2>3, <2>4, <2>5, <2>6, <2>7 DEF HandlerStep
<1>2. ASSUME NEW c \in Calls, NEW t \in Sockets, Join(c, t) \/ Knock(c, t)
      PROVE  Seen(h, s)
  <2>1. /\ call[c].pc = "idle" /\ UNCHANGED <<hostRoom, pendingKnocks, list>>
        /\ \A d \in Calls \ {c} : call'[d] = call[d]
    BY <1>2 DEF Join, Knock, Begin
  <2>2. p \in unheard => p \in unheard' BY <1>2, <1>c DEF Join, Knock
  <2>3. QED BY <1>a, <2>1, <2>2
<1>3. ASSUME NEW c \in Calls, NEW t \in Sockets, NEW u \in Users, NEW yes \in BOOLEAN,
             Respond(c, t, u, yes)
      PROVE  Seen(h, s)
  <2>1. /\ call[c].pc = "idle" /\ UNCHANGED <<conn, hostRoom, pendingKnocks, unheard>>
        /\ call'[c].pc = "respond" /\ call'[c].sock = t /\ call'[c].target = u
        /\ \A d \in Calls \ {c} : call'[d] = call[d]
    BY <1>3, BeginFields DEF Respond
  <2>2. CASE h = t /\ u = UserOf[s] BY <2>1, <2>2 DEF Seen
  <2>3. CASE ~(h = t /\ u = UserOf[s])
    <3>1. PageOf[t] = p => h = t
      BY <1>0, <1>3, <1>b, <2>1 DEF Respond, Begin, PagesInv, OneOpen
    <3>2. UserOf[s] \in list[p] => UserOf[s] \in list'[p]
      BY <1>0, <1>3, <2>3, <3>1 DEF Respond
    <3>3. QED BY <1>a, <2>1, <3>2
  <2>4. QED BY <2>2, <2>3
<1>4. ASSUME NEW t \in Sockets, Connect(t) PROVE Seen(h, s)
  BY <1>4, <1>a DEF Connect
<1>5. ASSUME NEW t \in Sockets, KnockCancel(t) PROVE Seen(h, s)
  <2> DEFINE u == UserOf[t]
  <2>1. ServerOf[t] = v BY KnockAssumption DEF OneProcess, KnockAssumption
  <2>2. /\ UNCHANGED <<hostRoom, call, unheard>> /\ RemoveKnock(v, u)
        /\ HideKnock(u) \/ UNCHANGED list
    BY <1>5, <2>1 DEF KnockCancel
  <2>3. s \in pendingKnocks[v] /\ UserOf[s] # u
    BY <1>0, <2>2 DEF RemoveKnock, OfUser
  <2>4. UserOf[s] \in list[p] => UserOf[s] \in list'[p]
    BY <1>0, <2>2, <2>3 DEF HideKnock
  <2>5. QED BY <1>a, <2>2, <2>3, <2>4
<1>6. ASSUME NEW t \in Sockets, CloseHost(t) PROVE Seen(h, s)
  BY <1>6, <1>a DEF CloseHost
<1>7. ASSUME NEW t \in Sockets, DenyAllPending(t) PROVE Seen(h, s)
  <2>1. ServerOf[t] = v BY KnockAssumption DEF OneProcess, KnockAssumption
  <2>2. pendingKnocks'[v] = {} BY <1>7, <2>1 DEF DenyAllPending
  <2>3. QED BY <2>2
<1>8. ASSUME NEW t \in Sockets, Disconnect(t)
      PROVE  Seen(h, s)
  <2>1. ServerOf[t] = v BY KnockAssumption DEF OneProcess, KnockAssumption
  <2>2. /\ h # t /\ h \in hostRoom /\ s # t /\ s \in pendingKnocks[v] /\ UNCHANGED call
        /\ unheard \subseteq unheard'
    BY <1>8, <2>1 DEF Disconnect
  <2>3. t \in pendingKnocks[v] => UserOf[s] # UserOf[t] BY <2>2 DEF Parked
  <2>4. UserOf[s] \in list[p] => UserOf[s] \in list'[p]
    BY <1>0, <1>8, <2>1, <2>2, <2>3 DEF Disconnect
  <2>5. QED BY <1>a, <2>2, <2>4
<1>9. CASE UNCHANGED vars BY <1>9, <1>a DEF vars
<1>10. QED BY <1>1, <1>2, <1>3, <1>4, <1>5, <1>6, <1>7, <1>8, <1>9, Steps

-----------------------------------------------------------------------------
(* Theorems. *)

(* The invariants hold initially. *)
LEMMA InitIInv == Init => SInv
<1> SUFFICES ASSUME Init PROVE SInv
  OBVIOUS
<1>1. call = [c \in Calls |-> Idle] /\ Idle \in CallRecord /\ Idle.pc = "idle"
  BY IdleFields DEF Init
<1>2. TypeOK BY <1>1 DEF Init, TypeOK, Views
<1>3. Parked BY DEF Init, Parked
<1>4. HostsOnly BY <1>1 DEF Init, HostsOnly
<1>5. PagesInv
  BY <1>1, KnockAssumption
  DEF Init, PagesInv, OneOpen, WaitsOpen, KnocksOpen, HostsOut, KnockAssumption
<1>6. WaitingIsParked /\ HostSeesKnocks BY DEF Init, WaitingIsParked, HostSeesKnocks
<1>7. QED BY <1>2, <1>3, <1>4, <1>5, <1>6 DEF IInv, SInv

(* The inductive invariant, on any number of processes: types, whose the   *)
(* parked knocks are, who is in the host room, what a page with a lost     *)
(* connection may still expect, and nobody waits unparked but who lost a   *)
(* knock with a connection or a failed query.                              *)
THEOREM Invariance == Spec => []IInv
<1>1. Init => IInv BY InitIInv DEF SInv
<1>2. IInv /\ [Next]_vars => IInv'
  BY TypeStep, ParkedStep, HostsOnlyStep, PagesStep, WaitingStep DEF IInv
<1>3. QED BY <1>1, <1>2, PTL DEF Spec

(* Every variable keeps its type.                                          *)
THEOREM TypeCorrect == Spec => []TypeOK
BY Invariance, PTL DEF IInv

(* A guest with one page on the meeting that waits has a knock parked, on  *)
(* the connection it has now, or under way, whatever the hosts, the        *)
(* cancels and other guests' disconnections do; unless its own last knock  *)
(* was lost with a connection or a failed query, which the page ignores.   *)
THEOREM NobodyWaitsUnparked == Spec => []WaitingIsParked
BY Invariance, PTL DEF IInv

(* On one process every host page shows every parked knock, but for those  *)
(* it took off its list for an answer that failed.                         *)
THEOREM HostsSeeEveryKnock ==
  ASSUME OneProcess
  PROVE  Spec => []HostSeesKnocks
<1>1. Init => SInv BY InitIInv
<1>2. SInv /\ [Next]_vars => SInv'
  BY SeenStep, TypeStep, ParkedStep, HostsOnlyStep, PagesStep, WaitingStep
  DEF SInv, IInv
<1>3. SInv => HostSeesKnocks BY DEF SInv
<1>4. QED BY <1>1, <1>2, <1>3, PTL DEF Spec

(* Nobody is let in but by the host's answer to a knock that was parked    *)
(* for the connection this very page has.                                  *)
THEOREM OnlyTheHostAdmits == Spec => AdmittedByHost
<1> DEFINE Admitted(s) ==
      /\ s \in pendingKnocks[ServerOf[s]] \ pendingKnocks'[ServerOf[s]]
      /\ \E c \in Calls : /\ call[c].pc = "respond" /\ call[c].yes
                          /\ call[c].target = UserOf[s] /\ IsHost(call[c].sock)
                          /\ call'[c].pc = "idle"
<1>1. ASSUME IInv, [Next]_vars, NEW p \in Pages, view[p] # "admitted", view'[p] = "admitted"
      PROVE  \E s \in Sockets : PageOf[s] = p /\ conn[s] = "open" /\ Admitted(s)
  <2> USE CallFields DEF TypeOK, IInv
  <2>1. \E c \in Calls : Responded(c)
    <3>1. ASSUME NEW c \in Calls, HandlerStep(c), ~Responded(c) PROVE FALSE
      BY <1>1, <3>1 DEF HandlerStep, Joined, HostJoined, Replay, Fails, HasHostPresent,
                        NoHost, ParkKnock, Resolve
    <3>2. ASSUME NEW c \in Calls, NEW t \in Sockets,
                 \/ Join(c, t) \/ Knock(c, t)
                 \/ \E u \in Users \ {Host}, yes \in BOOLEAN : Respond(c, t, u, yes)
          PROVE  FALSE
      BY <1>1, <3>2 DEF Join, Knock, Respond
    <3>3. ASSUME NEW t \in Sockets, Connect(t) \/ KnockCancel(t) PROVE FALSE
      BY <1>1, <3>3 DEF Connect, KnockCancel
    <3>4. ASSUME NEW t \in Sockets, CloseHost(t) \/ DenyAllPending(t)
          PROVE  FALSE
      BY <1>1, <3>4 DEF CloseHost, DenyAllPending, Resolve
    <3>5. ASSUME NEW t \in Sockets, Disconnect(t) PROVE FALSE
      BY <1>1, <3>5 DEF Disconnect
    <3>6. ~UNCHANGED vars BY <1>1 DEF vars
    <3>7. QED BY <1>1, <3>1, <3>2, <3>3, <3>4, <3>5, <3>6, Steps
  <2>2. PICK c \in Calls : Responded(c) BY <2>1
  <2> DEFINE v == ServerOf[call[c].sock]
             u == call[c].target
             R == pendingKnocks[v] \cap OfUser(u)
  <2>3. call[c].pc = "respond" /\ call'[c].pc = "idle"
    BY <1>1, <2>2, FinishFields DEF Responded
  <2>4. /\ IsHost(call[c].sock) /\ RemoveKnock(v, u)
        /\ Resolve(R, IF call[c].yes THEN "admitted" ELSE "denied")
    BY <1>1, <2>2 DEF Responded
  <2>5. call[c].yes /\ \E s \in R : PageOf[s] = p /\ conn[s] = "open"
    BY <1>1, <2>4 DEF Resolve
  <2>6. PICK s \in R : PageOf[s] = p /\ conn[s] = "open" BY <2>5
  <2>7. s \in Sockets /\ ServerOf[s] = v /\ UserOf[s] = u BY <1>1, <2>6 DEF Parked, OfUser
  <2>8. s \notin pendingKnocks'[v] BY <1>1, <2>4, <2>6 DEF RemoveKnock
  <2>9. Admitted(s) BY <2>3, <2>4, <2>5, <2>6, <2>7, <2>8
  <2>10. QED BY <2>6, <2>7, <2>9
<1>2. IInv /\ [Next]_vars =>
        [\A p \in Pages :
           view[p] # "admitted" /\ view'[p] = "admitted" =>
             \E s \in Sockets :
               /\ PageOf[s] = p /\ conn[s] = "open"
               /\ s \in pendingKnocks[ServerOf[s]] \ pendingKnocks'[ServerOf[s]]
               /\ \E c \in Calls : /\ call[c].pc = "respond" /\ call[c].yes
                                   /\ call[c].target = UserOf[s] /\ IsHost(call[c].sock)
                                   /\ call'[c].pc = "idle"]_vars
  BY <1>1
<1>3. QED BY <1>2, Invariance, PTL DEF Spec, AdmittedByHost
=============================================================================
