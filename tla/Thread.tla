------------------------------- MODULE Thread -------------------------------
(***************************************************************************)
(* One message, and the page of its author: the row, the handlers that     *)
(* send, edit, delete and react, the events and answers on their way to    *)
(* the page, and what the page's cache shows.                              *)
(*                                                                         *)
(* Grain.  One action is one query, or what the page does with one packet. *)
(* The events of two API processes, and the answers of HTTP, overtake one  *)
(* another.  The author edits, deletes and reacts on another page as well, *)
(* whose own copy is not followed.  Left out: the checks of membership,    *)
(* mentions, attachments, replies, and the conversation's own row; a text  *)
(* is the revision that wrote it, a reaction is one emoji of one user.     *)
(***************************************************************************)
EXTENDS Naturals, Sequences, FiniteSets

CONSTANTS
  MsgCalls,       \* bound: the handlers that run at the same time
  MaxVer,         \* bound: the revisions of the row
  MaxNet          \* bound: the packets on their way when another is sent

ASSUME ThreadAssumption == MaxVer \in Nat \ {0} /\ MaxNet \in Nat

VARIABLES
  row,            \* the message, ver 0 when it is not made
  sent,           \* the page has sent it
  page,           \* the entries of the message in the page's cache
  net,            \* the packets on their way to the page
  call,           \* the handlers in flight
  seen,           \* history: the latest revision the page was told, or should have been
  disturbed       \* history: a packet came late or not at all, and no fetch has healed it

threadVars == <<row, sent, page, net, call, seen, disturbed>>

Row == [ver: 0..MaxVer, text: 0..MaxVer, deleted: BOOLEAN, reacted: BOOLEAN]
NoRow == [ver |-> 0, text |-> 0, deleted |-> FALSE, reacted |-> FALSE]

Event == {"new", "edited", "deleted", "reaction"}

(* A packet: the row as the handler read it; a nonce comes with the new    *)
(* message only.  A fetch is one that has not reached the database yet.    *)
Packet == [kind: Event \cup {"answer", "history", "fetch"}, row: Row, nonce: BOOLEAN]

(* An entry of the cache has the message's id or a temporary one. *)
CacheEntry == [real: BOOLEAN, nonce: BOOLEAN, row: Row]

MsgPCs == {"idle", "create", "edit", "delete", "react", "read", "emit"}

MsgCall == [pc: MsgPCs, kind: Event, mine: BOOLEAN, row: Row]

ThreadTypeOK ==
  /\ row \in Row /\ sent \in BOOLEAN
  /\ page \in Seq(CacheEntry) /\ Len(page) <= 2
  /\ net \subseteq Packet
  /\ call \in [MsgCalls -> MsgCall]
  /\ seen \in 0..MaxVer /\ disturbed \in BOOLEAN

NoCall == [pc |-> "idle", kind |-> "new", mine |-> FALSE, row |-> NoRow]

ThreadInit ==
  /\ row = NoRow /\ sent = FALSE /\ page = <<>> /\ net = {}
  /\ call = [c \in MsgCalls |-> NoCall]
  /\ seen = 0 /\ disturbed = FALSE

Later(m, n) == IF m > n THEN m ELSE n

-----------------------------------------------------------------------------
(* The server. *)

(* Mutation: the text is handed out as it is stored. *)
Serialized_Stored(r) == r

(* serializer.message: a deleted message has no text. *)
Serialized(r) == IF r.deleted THEN [r EXCEPT !.text = 0] ELSE r

(* requireOwnEditable, and reactions' requireMessage. *)
FindMessage(c) ==
  /\ call[c].pc = "idle"
  /\ row.ver > 0 /\ ~row.deleted
  /\ \E k \in {"edited", "deleted", "reaction"}, mine \in BOOLEAN :
       call' = [call EXCEPT ![c] =
                  [pc |-> CASE k = "edited" -> "edit" [] k = "deleted" -> "delete"
                            [] OTHER -> "react",
                   kind |-> k, mine |-> mine, row |-> NoRow]]
  /\ UNCHANGED <<row, sent, page, net, seen, disturbed>>

Write(c, r, pc) ==
  /\ row.ver < MaxVer
  /\ row' = r
  /\ call' = [call EXCEPT ![c].pc = pc, ![c].row = r]
  /\ UNCHANGED <<sent, page, net, seen, disturbed>>

CreateMessage(c) ==
  /\ call[c].pc = "create"
  /\ Write(c, [NoRow EXCEPT !.ver = 1, !.text = 1], "read")

(* No write asks whether the message was deleted meanwhile. *)
UpdateContent(c) ==
  /\ call[c].pc = "edit"
  /\ Write(c, [row EXCEPT !.ver = @ + 1, !.text = row.ver + 1], "emit")

SoftDelete(c) ==
  /\ call[c].pc = "delete"
  /\ Write(c, [row EXCEPT !.ver = @ + 1, !.text = 0, !.deleted = TRUE], "emit")

WriteReaction(c) ==
  /\ call[c].pc = "react"
  /\ Write(c, [row EXCEPT !.ver = @ + 1, !.reacted = ~@], "read")

ReadMessage(c) ==
  /\ call[c].pc = "read"
  /\ call' = [call EXCEPT ![c].pc = "emit", ![c].row = row]
  /\ UNCHANGED <<row, sent, page, net, seen, disturbed>>

(* The room is told, and the page that called has its answer. *)
EmitMessage(c) ==
  LET k == call[c].kind
      r == Serialized(call[c].row)
      told == [kind |-> k, row |-> r, nonce |-> k = "new"] IN
  /\ call[c].pc = "emit" /\ Cardinality(net) <= MaxNet
  /\ net' = net \cup {told} \cup (IF call[c].mine THEN {[told EXCEPT !.kind = "answer"]} ELSE {})
  /\ call' = [call EXCEPT ![c] = NoCall]
  /\ UNCHANGED <<row, sent, page, seen, disturbed>>

Fetch == [kind |-> "fetch", row |-> NoRow, nonce |-> FALSE]

(* A query throws, or the process dies.  Nobody hears of what was written; *)
(* a page whose send fails fetches the messages again.                     *)
AbandonMessage(c) ==
  /\ call[c].pc # "idle"
  /\ LET ver == call[c].row.ver IN
       /\ seen' = Later(seen, ver)
       /\ disturbed' = (disturbed \/ ver > 0)
  /\ net' = IF call[c].mine /\ call[c].kind = "new" THEN net \cup {Fetch} ELSE net
  /\ call' = [call EXCEPT ![c] = NoCall]
  /\ UNCHANGED <<row, sent, page>>

(* history(). *)
ReadHistory ==
  /\ Fetch \in net
  /\ net' = (net \ {Fetch}) \cup {[kind |-> "history", row |-> Serialized(row), nonce |-> FALSE]}
  /\ UNCHANGED <<row, sent, page, call, seen, disturbed>>

-----------------------------------------------------------------------------
(* The page. *)

(* useSendMessage: an entry with a temporary id is shown at once. *)
SendMessage(c) ==
  /\ ~sent /\ call[c].pc = "idle"
  /\ sent' = TRUE
  /\ page' = Append(page, [real |-> FALSE, nonce |-> TRUE, row |-> [NoRow EXCEPT !.text = 1]])
  /\ call' = [call EXCEPT ![c] = [pc |-> "create", kind |-> "new", mine |-> TRUE, row |-> NoRow]]
  /\ UNCHANGED <<row, net, seen, disturbed>>

(* The window is focused, the query is stale, ... *)
Refetch ==
  /\ Fetch \notin net /\ Cardinality(net) <= MaxNet
  /\ net' = net \cup {Fetch}
  /\ UNCHANGED <<row, sent, page, call, seen, disturbed>>

Shown(p) == [real |-> TRUE, nonce |-> p.nonce, row |-> p.row]

(* Mutation: an entry is found by its id only. *)
Upserted_ById(p) ==
  IF \E i \in DOMAIN page : page[i].real
    THEN [i \in DOMAIN page |-> IF page[i].real THEN Shown(p) ELSE page[i]]
    ELSE Append(page, Shown(p))

(* upsertMessage: every entry with the id or the nonce is replaced. *)
Upserted(p) ==
  LET Same(e) == e.real \/ (p.nonce /\ e.nonce) IN
  IF \E i \in DOMAIN page : Same(page[i])
    THEN [i \in DOMAIN page |-> IF Same(page[i]) THEN Shown(p) ELSE page[i]]
    ELSE Append(page, Shown(p))

(* patchMessage: what no entry has is not patched. *)
Patched(p) ==
  [i \in DOMAIN page |->
     IF ~page[i].real THEN page[i]
     ELSE IF p.kind = "deleted" THEN [page[i] EXCEPT !.row.text = 0, !.row.deleted = TRUE]
     ELSE [page[i] EXCEPT !.row.reacted = p.row.reacted]]

Fetched(p) == IF p.row.ver = 0 THEN <<>> ELSE <<Shown(p)>>

(* A packet out of turn: older than what the page was told, or an edited   *)
(* message, to be shown whole, before the page knows its id.               *)
OutOfTurn(p) ==
  \/ p.row.ver < seen
  \/ p.kind \in {"edited", "answer"} /\ ~p.nonce /\ \A i \in DOMAIN page : ~page[i].real

(* A packet out of turn disturbs the page, the messages as they are heal it. *)
Receive(p) ==
  /\ p \in net /\ p.kind # "fetch"
  /\ net' = net \ {p}
  /\ page' = CASE p.kind \in {"new", "edited", "answer"} -> Upserted(p)
               [] p.kind \in {"deleted", "reaction"} -> Patched(p)
               [] OTHER -> Fetched(p)
  /\ seen' = Later(seen, p.row.ver)
  /\ disturbed' = (OutOfTurn(p) \/ (disturbed /\ p.kind # "history"))
  /\ UNCHANGED <<row, sent, call>>

(* The socket was down when the event was emitted.  The page fetches the   *)
(* conversations when it is connected again, not the messages.             *)
MissEvent(p) ==
  /\ p \in net /\ p.kind \in Event
  /\ net' = net \ {p}
  /\ seen' = Later(seen, p.row.ver)
  /\ disturbed' = TRUE
  /\ UNCHANGED <<row, sent, page, call>>

ThreadNext ==
  \/ \E c \in MsgCalls : \/ SendMessage(c) \/ CreateMessage(c) \/ FindMessage(c)
                         \/ UpdateContent(c) \/ SoftDelete(c) \/ WriteReaction(c)
                         \/ ReadMessage(c) \/ EmitMessage(c) \/ AbandonMessage(c)
  \/ ReadHistory \/ Refetch
  \/ \E p \in net : Receive(p) \/ MissEvent(p)

ThreadSpec == ThreadInit /\ [][ThreadNext]_threadVars
-----------------------------------------------------------------------------
(* Properties. *)

(* When nothing is on its way any more and no packet came late or was      *)
(* lost since the last fetch, the page shows the message once, and as it   *)
(* is: the temporary entry is gone, the last edit is shown, a deleted      *)
(* message has no text (an edit may have written one after the deletion),  *)
(* in whatever order the event, the answer and the fetches were taken.     *)
PageSettles ==
  (net = {} /\ ~disturbed /\ row.ver > 0 /\ \A c \in MsgCalls : call[c].pc = "idle") =>
    /\ Len(page) = 1 /\ page[1].real
    /\ [page[1].row EXCEPT !.ver = row.ver] = Serialized(row)
    /\ row.deleted => page[1].row.text = 0
=============================================================================
