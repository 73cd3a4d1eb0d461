---------------------------- MODULE ThreadProofs ----------------------------
(***************************************************************************)
(* Proofs about one message and its author's page, for every number of     *)
(* handlers, revisions and packets.                                        *)
(*                                                                         *)
(* That the page shows the message in the end says nothing of the steps    *)
(* before.  What is inductive is what a row, wherever it is, is worth: a   *)
(* row in a packet, or in a handler about to tell it, that is not older    *)
(* than what the page was told, differs from the message only in what a    *)
(* later change did that is still to be told.                              *)
(***************************************************************************)
EXTENDS Thread, TLAPS

-----------------------------------------------------------------------------
(* What is on its way, and what it is worth. *)

(* Handlers that have written, and will tell the room. *)
Telling == {c \in MsgCalls : call[c].pc \in {"read", "emit"}}

(* The rows that are on their way to the page. *)
ToldRows == {call[c].row : c \in {d \in MsgCalls : call[d].pc = "emit"}}
              \cup {p.row : p \in {q \in net : q.kind # "fetch"}}

(* The revisions of what is still to be told and is of these kinds. *)
Untold(K) == {call[c].row.ver : c \in {d \in Telling : call[d].kind \in K}}
               \cup {p.row.ver : p \in {q \in net : q.kind \in K}}

News == {"new"}
Texts == {"edited", "deleted"}
Reactions == {"reaction"}

CallShape(c) ==
  /\ call[c].row.ver <= row.ver
  /\ call[c].pc = "create" => call[c].kind = "new" /\ row.ver = 0 /\ sent
  /\ call[c].pc = "edit" => call[c].kind = "edited"
  /\ call[c].pc = "delete" => call[c].kind = "deleted"
  /\ call[c].pc = "react" => call[c].kind = "reaction"
  /\ call[c].pc \in {"edit", "delete", "react"} => row.ver > 0
  /\ call[c].pc = "read" => call[c].kind \in {"new", "reaction"}
  /\ call[c].row.ver > 0 <=> c \in Telling
  /\ call[c].pc = "emit" /\ call[c].kind = "deleted" => call[c].row.deleted

PacketShape(p) ==
  /\ p.row.ver <= row.ver /\ Serialized(p.row) = p.row
  /\ p.kind \notin {"fetch", "history"} => p.row.ver > 0
  /\ p.kind = "deleted" => p.row.deleted
  /\ p.kind = "new" => p.nonce

PageShape ==
  /\ \A i \in DOMAIN page : IF page[i].real THEN row.ver > 0 ELSE page[i].nonce
  /\ Len(page) = 2 => \E i \in DOMAIN page : page[i].real
  /\ ~disturbed => Len(page) <= 1

ThreadShape ==
  /\ \A c \in MsgCalls : CallShape(c)
  /\ \A c, d \in MsgCalls : call[c].pc = "create" /\ call[d].pc = "create" => c = d
  /\ ~sent => row.ver = 0 /\ page = <<>> /\ \A c \in MsgCalls : call[c].pc # "create"
  /\ \A p \in net : PacketShape(p)
  /\ PageShape
  /\ seen <= row.ver

SameText(r) == r.text = Serialized(row).text /\ r.deleted = row.deleted

(* A row that is told and not older than what the page was told differs    *)
(* from the message only in what a later change, still to be told, did.    *)
Fresh(r) ==
  r.ver >= seen =>
    /\ r.ver = 0 => row.ver = 0 \/ \E v \in Untold(News) : v > 0
    /\ r.ver > 0 => /\ SameText(Serialized(r)) \/ \E v \in Untold(Texts) : v > r.ver
                    /\ r.reacted = row.reacted \/ \E v \in Untold(Reactions) : v > r.ver

AllFresh == \A r \in ToldRows : Fresh(r)

Late == \E r \in ToldRows : r.ver < seen

(* The same of the page. *)
PageFresh ==
  /\ Untold(News) # {} \/ \E i \in DOMAIN page : page[i].real
  /\ \A i \in DOMAIN page : page[i].real =>
       /\ SameText(page[i].row) \/ Untold(Texts) # {}
       /\ page[i].row.reacted = row.reacted \/ Untold(Reactions) # {}

PageKnows == ~disturbed /\ ~Late /\ row.ver > 0 => PageFresh

ThreadInv == ThreadTypeOK /\ ThreadShape /\ AllFresh /\ PageKnows

-----------------------------------------------------------------------------

LEMMA SerializedRow ==
  ASSUME NEW r \in Row
  PROVE  /\ Serialized(r) \in Row /\ Serialized(Serialized(r)) = Serialized(r)
         /\ Serialized(r).ver = r.ver /\ Serialized(r).deleted = r.deleted
         /\ Serialized(r).reacted = r.reacted
         /\ r.deleted => Serialized(r).text = 0
<1>1. CASE r.deleted
  <2>1. Serialized(r) = [r EXCEPT !.text = 0] BY <1>1 DEF Serialized
  <2>2. 0 \in 0..MaxVer BY ThreadAssumption
  <2>3. [r EXCEPT !.text = 0] \in Row BY <2>2 DEF Row
  <2>4. /\ [r EXCEPT !.text = 0].deleted = r.deleted /\ [r EXCEPT !.text = 0].text = 0
        /\ [r EXCEPT !.text = 0].ver = r.ver /\ [r EXCEPT !.text = 0].reacted = r.reacted
    BY DEF Row
  <2>5. [[r EXCEPT !.text = 0] EXCEPT !.text = 0] = [r EXCEPT !.text = 0] BY DEF Row
  <2>6. QED BY <1>1, <2>1, <2>3, <2>4, <2>5 DEF Serialized
<1>2. CASE ~r.deleted BY <1>2 DEF Serialized
<1>3. QED BY <1>1, <1>2

LEMMA ThreadRecords == NoRow \in Row /\ NoCall \in MsgCall /\ Fetch \in Packet
<1>1. 0 \in 0..MaxVer BY ThreadAssumption
<1>2. NoRow \in Row BY <1>1 DEF NoRow, Row
<1>3. NoCall \in MsgCall BY <1>2 DEF NoCall, MsgCall, MsgPCs, Event
<1>4. Fetch \in Packet BY <1>2 DEF Fetch, Packet
<1>5. QED BY <1>2, <1>3, <1>4

(* A handler's record is replaced. *)
LEMMA CallReplaced ==
  ASSUME ThreadTypeOK, NEW c \in MsgCalls, NEW k \in MsgCall, call' = [call EXCEPT ![c] = k]
  PROVE  /\ call' \in [MsgCalls -> MsgCall] /\ call'[c] = k
         /\ \A d \in MsgCalls \ {c} : call'[d] = call[d]
BY DEF ThreadTypeOK

(* What a write does. *)
Wrote(c) ==
  /\ call[c].pc \in {"create", "edit", "delete", "react"}
  /\ row' \in Row /\ row'.ver = row.ver + 1
  /\ call' \in [MsgCalls -> MsgCall] /\ \A d \in MsgCalls \ {c} : call'[d] = call[d]
  /\ call'[c].row = row' /\ call'[c].kind = call[c].kind /\ call'[c].mine = call[c].mine
  /\ call'[c].pc = IF call[c].kind \in Texts THEN "emit" ELSE "read"
  /\ call[c].kind \in {"new", "edited", "deleted", "reaction"}
  /\ call[c].kind = "new" <=> row.ver = 0
  /\ call[c].kind \in Texts => row'.reacted = row.reacted
  /\ call[c].kind = "reaction" => row'.text = row.text /\ row'.deleted = row.deleted
  /\ call[c].kind = "deleted" => row'.deleted
  /\ UNCHANGED <<sent, page, net, seen, disturbed>>

LEMMA WritesWrite ==
  ASSUME ThreadTypeOK, ThreadShape, NEW c \in MsgCalls,
         CreateMessage(c) \/ UpdateContent(c) \/ SoftDelete(c) \/ WriteReaction(c)
  PROVE  Wrote(c)
<1>1. row \in Row /\ call \in [MsgCalls -> MsgCall] /\ call[c] \in MsgCall BY DEF ThreadTypeOK
<1>2. /\ row.ver \in 0..MaxVer /\ row.text \in 0..MaxVer /\ row.deleted \in BOOLEAN /\ row.reacted \in BOOLEAN
      /\ call[c].kind \in Event /\ call[c].mine \in BOOLEAN /\ 0 \in 0..MaxVer
  BY <1>1, ThreadAssumption DEF Row, MsgCall
<1>3. CallShape(c) BY DEF ThreadShape
<1>4. ASSUME NEW r \in Row, NEW pc \in MsgPCs, Write(c, r, pc)
      PROVE  /\ row.ver < MaxVer /\ row' = r
             /\ call' \in [MsgCalls -> MsgCall] /\ \A d \in MsgCalls \ {c} : call'[d] = call[d]
             /\ call'[c].row = r /\ call'[c].kind = call[c].kind /\ call'[c].mine = call[c].mine
             /\ call'[c].pc = pc
             /\ UNCHANGED <<sent, page, net, seen, disturbed>>
  <2> DEFINE k == [call[c] EXCEPT !.pc = pc, !.row = r]
  <2>1. call' = [call EXCEPT ![c] = k] BY <1>1, <1>4 DEF Write
  <2>2. /\ k \in MsgCall /\ k.row = r /\ k.pc = pc /\ k.kind = call[c].kind /\ k.mine = call[c].mine
    BY <1>1, <1>4 DEF MsgCall
  <2> HIDE DEF k
  <2>3. /\ call' \in [MsgCalls -> MsgCall] /\ call'[c] = k
        /\ \A d \in MsgCalls \ {c} : call'[d] = call[d]
    BY <2>1, <2>2, CallReplaced
  <2>4. QED BY <1>4, <2>2, <2>3 DEF Write
<1>5. "read" \in MsgPCs /\ "emit" \in MsgPCs BY DEF MsgPCs
<1>6. MaxVer \in Nat \ {0} BY ThreadAssumption
<1>7. CASE CreateMessage(c)
  <2> DEFINE r == [NoRow EXCEPT !.ver = 1, !.text = 1]
  <2>1. 1 \in 0..MaxVer BY <1>6
  <2>2. r \in Row BY <1>2, <2>1, ThreadRecords DEF Row
  <2>3. r.ver = 1 BY <1>2, <2>1, ThreadRecords DEF Row
  <2>4. Write(c, r, "read") /\ call[c].pc = "create" BY <1>7 DEF CreateMessage
  <2>5. call[c].kind = "new" /\ row.ver = 0 BY <1>3, <2>4, <1>2 DEF CallShape
  <2> HIDE DEF r
  <2>6. QED BY <1>2, <1>4, <1>5, <2>2, <2>3, <2>4, <2>5 DEF Wrote, Texts
<1>8. CASE UpdateContent(c)
  <2> DEFINE r == [row EXCEPT !.ver = @ + 1, !.text = row.ver + 1]
  <2>1. row.ver + 1 \in 0..MaxVer BY <1>2, <1>6, <1>8 DEF UpdateContent, Write
  <2>2. r \in Row BY <1>1, <1>2, <2>1 DEF Row
  <2>3. r.ver = row.ver + 1 /\ r.reacted = row.reacted BY <1>1, <1>2, <2>1 DEF Row
  <2>4. Write(c, r, "emit") /\ call[c].pc = "edit" BY <1>8 DEF UpdateContent
  <2>5. call[c].kind = "edited" /\ row.ver > 0 BY <1>3, <2>4, <1>2 DEF CallShape
  <2> HIDE DEF r
  <2>6. QED BY <1>2, <1>4, <1>5, <2>2, <2>3, <2>4, <2>5 DEF Wrote, Texts
<1>9. CASE SoftDelete(c)
  <2> DEFINE r == [row EXCEPT !.ver = @ + 1, !.text = 0, !.deleted = TRUE]
  <2>1. row.ver + 1 \in 0..MaxVer BY <1>2, <1>6, <1>9 DEF SoftDelete, Write
  <2>2. r \in Row BY <1>1, <1>2, <2>1 DEF Row
  <2>3. r.ver = row.ver + 1 /\ r.reacted = row.reacted /\ r.deleted BY <1>1, <1>2, <2>1 DEF Row
  <2>4. Write(c, r, "emit") /\ call[c].pc = "delete" BY <1>9 DEF SoftDelete
  <2>5. call[c].kind = "deleted" /\ row.ver > 0 BY <1>3, <2>4, <1>2 DEF CallShape
  <2> HIDE DEF r
  <2>6. QED BY <1>2, <1>4, <1>5, <2>2, <2>3, <2>4, <2>5 DEF Wrote, Texts
<1>10. CASE WriteReaction(c)
  <2> DEFINE r == [row EXCEPT !.ver = @ + 1, !.reacted = ~@]
  <2>1. row.ver + 1 \in 0..MaxVer BY <1>2, <1>6, <1>10 DEF WriteReaction, Write
  <2>2. r \in Row BY <1>1, <1>2, <2>1 DEF Row
  <2>3. r.ver = row.ver + 1 /\ r.text = row.text /\ r.deleted = row.deleted BY <1>1, <1>2, <2>1 DEF Row
  <2>4. Write(c, r, "read") /\ call[c].pc = "react" BY <1>10 DEF WriteReaction
  <2>5. call[c].kind = "reaction" /\ row.ver > 0 BY <1>3, <2>4, <1>2 DEF CallShape
  <2> HIDE DEF r
  <2>6. QED BY <1>2, <1>4, <1>5, <2>2, <2>3, <2>4, <2>5 DEF Wrote, Texts
<1>11. QED BY <1>7, <1>8, <1>9, <1>10

LEMMA ThreadStart == ThreadInit => ThreadInv
<1> SUFFICES ASSUME ThreadInit PROVE ThreadInv OBVIOUS
<1>1. /\ row = NoRow /\ sent = FALSE /\ page = <<>> /\ net = {} /\ seen = 0 /\ disturbed = FALSE
      /\ call = [c \in MsgCalls |-> NoCall]
  BY DEF ThreadInit
<1>2. page \in Seq(CacheEntry) /\ Len(page) = 0 /\ DOMAIN page = {} BY <1>1
<1>3. ThreadTypeOK
  <2>1. 0 \in 0..MaxVer BY ThreadAssumption
  <2>2. call \in [MsgCalls -> MsgCall] BY <1>1, ThreadRecords
  <2>3. Len(page) <= 2 BY <1>2
  <2>4. QED BY <1>1, <1>2, <2>1, <2>2, <2>3, ThreadRecords DEF ThreadTypeOK
<1>4. \A c \in MsgCalls : call[c].pc = "idle" /\ call[c].row.ver = 0 BY <1>1 DEF NoCall, NoRow
<1>5. row.ver = 0 BY <1>1 DEF NoRow
<1>6. \A c \in MsgCalls : CallShape(c) BY <1>4, <1>5 DEF CallShape, Telling
<1>7. PageShape BY <1>1, <1>2 DEF PageShape
<1>8. ThreadShape BY <1>1, <1>4, <1>5, <1>6, <1>7 DEF ThreadShape
<1>9. ToldRows = {} BY <1>1, <1>4 DEF ToldRows
<1>10. QED BY <1>3, <1>5, <1>8, <1>9 DEF ThreadInv, AllFresh, PageKnows

-----------------------------------------------------------------------------
(* Steps. *)

LEMMA OnTheWay ==
  ASSUME ThreadTypeOK, ThreadShape
  PROVE  /\ ToldRows \subseteq Row /\ \A r \in ToldRows : r.ver \in 0..row.ver
         /\ \A K \in {News, Texts, Reactions} : \A v \in Untold(K) : v \in 1..row.ver
         /\ row \in Row /\ row.ver \in Nat /\ seen \in Nat
<1>1. /\ row \in Row /\ call \in [MsgCalls -> MsgCall] /\ net \subseteq Packet /\ seen \in 0..MaxVer
      /\ MaxVer \in Nat
  BY ThreadAssumption DEF ThreadTypeOK
<1>2. \A r \in Row : r.ver \in Nat BY <1>1 DEF Row
<1>3. \A c \in MsgCalls : call[c].row \in Row /\ call[c].row.ver \in 0..row.ver
      /\ (c \in Telling => call[c].row.ver > 0)
  BY <1>1, <1>2 DEF ThreadShape, CallShape, MsgCall
<1>4. \A p \in net : p.row \in Row /\ p.row.ver \in 0..row.ver
      /\ (p.kind \notin {"fetch", "history"} => p.row.ver > 0)
  BY <1>1, <1>2 DEF ThreadShape, PacketShape, Packet
<1>5. ToldRows \subseteq Row /\ \A r \in ToldRows : r.ver \in 0..row.ver
  BY <1>3, <1>4 DEF ToldRows
<1>6. ASSUME NEW K \in {News, Texts, Reactions}, NEW v \in Untold(K) PROVE v \in 1..row.ver
  <2>1. "fetch" \notin K /\ "history" \notin K BY DEF News, Texts, Reactions
  <2>2. CASE \E c \in Telling : v = call[c].row.ver
    <3>1. Telling \subseteq MsgCalls BY DEF Telling
    <3>2. QED BY <1>1, <1>2, <1>3, <2>2, <3>1
  <2>3. CASE \E p \in net : p.kind \in K /\ v = p.row.ver
    BY <1>1, <1>2, <1>4, <2>1, <2>3
  <2>4. QED BY <2>2, <2>3 DEF Untold
<1>7. QED BY <1>1, <1>2, <1>5, <1>6

(* What was untold is still untold, or the page was told of something not  *)
(* older.                                                                  *)
StillUntold(K) == \A v \in Untold(K) : v <= seen' \/ \E w \in Untold(K)' : w >= v

LEMMA QuietKeepsFresh ==
  ASSUME ThreadTypeOK, ThreadShape, AllFresh, row' = row, seen' \in Nat, seen' >= seen,
         StillUntold(News), StillUntold(Texts), StillUntold(Reactions),
         (\A K \in {News, Texts, Reactions} : \A v \in Untold(K)' : v \in Nat),
         NEW r \in ToldRows
  PROVE  Fresh(r)'
<1>1. r \in Row /\ r.ver \in 0..row.ver /\ row.ver \in Nat /\ seen \in Nat BY OnTheWay
<1>2. SUFFICES ASSUME r.ver >= seen'
               PROVE  /\ r.ver = 0 => row.ver = 0 \/ \E v \in Untold(News)' : v > 0
                      /\ r.ver > 0 => /\ SameText(Serialized(r)) \/ \E v \in Untold(Texts)' : v > r.ver
                                      /\ r.reacted = row.reacted \/ \E v \in Untold(Reactions)' : v > r.ver
  BY DEF Fresh, SameText, Serialized
<1>3. r.ver >= seen /\ Fresh(r) BY <1>1, <1>2 DEF AllFresh
<1>4. ASSUME NEW K \in {News, Texts, Reactions}, StillUntold(K), \E v \in Untold(K) : v > r.ver
      PROVE  \E v \in Untold(K)' : v > r.ver
  <2>1. PICK v \in Untold(K) : v > r.ver BY <1>4
  <2>2. v \in Nat BY OnTheWay
  <2>3. PICK w \in Untold(K)' : w >= v BY <1>1, <1>2, <1>4, <2>1, <2>2 DEF StillUntold
  <2>4. w \in Nat OBVIOUS
  <2>5. w > r.ver BY <1>1, <2>1, <2>2, <2>3, <2>4
  <2>6. QED BY <2>5
<1>5. QED BY <1>1, <1>3, <1>4 DEF Fresh

LEMMA QuietKeepsPage ==
  ASSUME PageKnows, row' = row, page' = page, disturbed' \in BOOLEAN, ~disturbed' => ~disturbed, ~Late' => ~Late,
         Untold(News) # {} => Untold(News)' # {},
         Untold(Texts) # {} => Untold(Texts)' # {},
         Untold(Reactions) # {} => Untold(Reactions)' # {}
  PROVE  PageKnows'
<1>1. SUFFICES ASSUME ~disturbed', ~Late', row.ver > 0 PROVE PageFresh' BY DEF PageKnows
<1>2. PageFresh BY <1>1 DEF PageKnows
<1>3. QED BY <1>2 DEF PageFresh, SameText, Serialized

LEMMA WriteKeeps ==
  ASSUME ThreadInv, NEW c \in MsgCalls, Wrote(c)
  PROVE  ThreadInv'
<1> USE DEF ThreadInv
<1>1. /\ call[c].pc \in {"create", "edit", "delete", "react"}
      /\ row' \in Row /\ row'.ver = row.ver + 1
      /\ call' \in [MsgCalls -> MsgCall] /\ \A d \in MsgCalls \ {c} : call'[d] = call[d]
      /\ call'[c].row = row' /\ call'[c].kind = call[c].kind
      /\ call'[c].pc = IF call[c].kind \in Texts THEN "emit" ELSE "read"
      /\ call[c].kind \in {"new", "edited", "deleted", "reaction"}
      /\ call[c].kind = "new" <=> row.ver = 0
      /\ sent' = sent /\ page' = page /\ net' = net /\ seen' = seen /\ disturbed' = disturbed
  BY DEF Wrote
<1>2. row.ver \in Nat /\ seen \in Nat BY OnTheWay
<1>3. CallShape(c) /\ c \notin Telling BY <1>1 DEF ThreadShape, Telling
<1>4. ThreadTypeOK' BY <1>1 DEF ThreadTypeOK
<1>5. Telling' = Telling \cup {c} BY <1>1 DEF Telling, Texts
<1>6. ThreadShape'
  <2>1. ASSUME NEW d \in MsgCalls PROVE CallShape(d)'
    <3>1. CASE d = c
      <4>1. call[c].kind = "deleted" => row'.deleted BY DEF Wrote
      <4>2. QED BY <1>1, <1>2, <1>5, <3>1, <4>1 DEF CallShape, Texts
    <3>2. CASE d # c
      <4>1. CallShape(d) /\ call'[d] = call[d] BY <1>1, <3>2 DEF ThreadShape
      <4>2. call[d].row.ver \in Nat
        <5>1. call[d].row \in Row BY DEF ThreadTypeOK, MsgCall
        <5>2. QED BY <5>1, ThreadAssumption DEF Row
      <4>3. call[d].pc # "create"
        <5>1. row.ver = 0 => call[c].pc = "create" BY <1>1, <1>3 DEF CallShape
        <5>2. QED BY <3>2, <4>1, <5>1 DEF CallShape, ThreadShape
      <4>4. QED BY <1>1, <1>2, <1>5, <3>2, <4>1, <4>2, <4>3 DEF CallShape
    <3>3. QED BY <3>1, <3>2
  <2>2. \A d, e \in MsgCalls : call'[d].pc = "create" /\ call'[e].pc = "create" => d = e
    BY <1>1 DEF ThreadShape, Texts
  <2>3. sent BY <1>1, <1>3 DEF CallShape, ThreadShape
  <2>4. ASSUME NEW p \in net PROVE PacketShape(p)'
    <3>1. PacketShape(p) /\ p.row.ver \in Nat
      <4>1. p.row \in Row BY DEF ThreadTypeOK, Packet
      <4>2. QED BY <4>1, ThreadAssumption DEF ThreadShape, Row
    <3>2. QED BY <1>1, <1>2, <3>1 DEF PacketShape, Serialized
  <2>5. PageShape' BY <1>1, <1>2 DEF ThreadShape, PageShape
  <2>6. seen' <= row'.ver BY <1>1, <1>2 DEF ThreadShape
  <2>7. QED BY <1>1, <2>1, <2>2, <2>3, <2>4, <2>5, <2>6 DEF ThreadShape
<1>7. ToldRows \subseteq ToldRows' /\ ToldRows' \subseteq ToldRows \cup {row'}
  BY <1>1, <1>3 DEF ToldRows, Telling
<1>8. ASSUME NEW K
      PROVE  /\ Untold(K) \subseteq Untold(K)'
             /\ call[c].kind \in K => row.ver + 1 \in Untold(K)'
  <2>1. ASSUME NEW d \in Telling, call[d].kind \in K PROVE call[d].row.ver \in Untold(K)'
    <3>1. d \in Telling' /\ call'[d] = call[d] BY <1>1, <1>3, <1>5 DEF Telling
    <3>2. QED BY <2>1, <3>1 DEF Untold
  <2>2. ASSUME NEW p \in net, p.kind \in K PROVE p.row.ver \in Untold(K)'
    BY <1>1, <2>2 DEF Untold
  <2>3. ASSUME call[c].kind \in K PROVE row.ver + 1 \in Untold(K)'
    <3>1. c \in Telling' /\ call'[c].kind \in K /\ call'[c].row.ver = row.ver + 1 BY <1>1, <1>5, <2>3
    <3>2. QED BY <3>1 DEF Untold
  <2>4. QED BY <2>1, <2>2, <2>3 DEF Untold
<1>9. ASSUME NEW r \in ToldRows' PROVE Fresh(r)'
  <2>1. CASE r = row'
    <3>1. r.ver > 0 /\ ~(r.ver = 0) BY <1>1, <1>2, <2>1
    <3>2. Serialized(r).deleted = r.deleted BY <1>1, <2>1, SerializedRow
    <3>3. SameText(Serialized(r))' BY <2>1, <3>2 DEF SameText, Serialized
    <3>4. QED BY <2>1, <3>1, <3>3 DEF Fresh
  <2>2. CASE r \in ToldRows
    <3>1. r \in Row /\ r.ver \in 0..row.ver BY <2>2, OnTheWay
    <3>2. Fresh(r) BY <2>2 DEF AllFresh
    <3>3. r.ver \in Nat /\ row.ver + 1 > r.ver BY <1>2, <3>1
    <3>4. CASE call[c].kind = "new"
      <4>1. r.ver = 0 BY <1>1, <3>1, <3>4
      <4>2. row.ver + 1 \in Untold(News)' BY <1>8, <3>4 DEF News
      <4>3. QED BY <3>3, <4>1, <4>2 DEF Fresh
    <3>5. CASE call[c].kind \in Texts
      <4>1. row'.reacted = row.reacted /\ row.ver # 0 BY <1>1, <3>5 DEF Wrote, Texts
      <4>2. row.ver + 1 \in Untold(Texts)' BY <1>8, <3>5
      <4>3. QED BY <1>1, <1>8, <3>2, <3>3, <4>1, <4>2 DEF Fresh
    <3>6. CASE call[c].kind = "reaction"
      <4>1. row'.text = row.text /\ row'.deleted = row.deleted /\ row.ver # 0 BY <1>1, <3>6 DEF Wrote
      <4>2. row.ver + 1 \in Untold(Reactions)' BY <1>8, <3>6 DEF Reactions
      <4>3. SameText(Serialized(r)) => SameText(Serialized(r))'
        <5>1. Serialized(row').text = Serialized(row).text
          <6>1. row \in Row BY DEF ThreadTypeOK
          <6>2. QED BY <1>1, <4>1, <6>1 DEF Serialized, Row
        <5>2. (Serialized(row).text)' = Serialized(row').text BY DEF Serialized
        <5>3. QED BY <4>1, <5>1, <5>2 DEF SameText, Serialized
      <4>4. QED BY <1>1, <1>8, <3>2, <3>3, <4>1, <4>2, <4>3 DEF Fresh
    <3>7. QED BY <1>1, <3>4, <3>5, <3>6 DEF Texts
  <2>3. QED BY <1>7, <2>1, <2>2
<1>10. PageKnows'
  <2>1. SUFFICES ASSUME ~disturbed', ~Late' PROVE PageFresh' BY DEF PageKnows
  <2>2. ~disturbed /\ ~Late BY <1>1, <1>7, <2>1 DEF Late
  <2>3. \A i \in DOMAIN page : page[i].real => row.ver > 0 BY DEF ThreadShape, PageShape
  <2>4. CASE call[c].kind = "new"
    <3>1. ~(row.ver > 0) BY <1>1, <2>4
    <3>2. \A i \in DOMAIN page : ~page[i].real BY <2>3, <3>1
    <3>3. Untold(News)' # {} BY <1>8, <2>4 DEF News
    <3>4. QED BY <1>1, <3>2, <3>3 DEF PageFresh
  <2>5. CASE call[c].kind # "new"
    <3>1. PageFresh BY <1>1, <1>2, <2>2, <2>5 DEF PageKnows
    <3>2. CASE call[c].kind \in Texts
      <4>1. row'.reacted = row.reacted BY <3>2 DEF Wrote
      <4>2. QED BY <1>1, <1>8, <3>1, <3>2, <4>1 DEF PageFresh
    <3>3. CASE call[c].kind = "reaction"
      <4>1. row'.text = row.text /\ row'.deleted = row.deleted BY <3>3 DEF Wrote
      <4>2. (Serialized(row).text)' = Serialized(row).text
        <5>1. row \in Row BY DEF ThreadTypeOK
        <5>2. QED BY <1>1, <4>1, <5>1 DEF Serialized, Row
      <4>3. Untold(Reactions)' # {} BY <1>8, <3>3 DEF Reactions
      <4>4. QED BY <1>1, <1>8, <3>1, <4>1, <4>2, <4>3 DEF PageFresh, SameText
    <3>4. QED BY <1>1, <2>5, <3>2, <3>3 DEF Texts
  <2>6. QED BY <2>4, <2>5
<1>11. QED BY <1>4, <1>6, <1>9, <1>10 DEF AllFresh

(* The sets of what is on its way, when one handler and the packets change. *)
LEMMA OthersStay ==
  ASSUME ThreadTypeOK, NEW c, call' \in [MsgCalls -> MsgCall],
         \A d \in MsgCalls \ {c} : call'[d] = call[d], NEW K
  PROVE  /\ \A d \in MsgCalls \ {c} : d \in Telling' <=> d \in Telling
         /\ \A v \in Untold(K) :
              \/ c \in Telling /\ call[c].kind \in K /\ v = call[c].row.ver
              \/ \E p \in net \ net' : p.kind \in K /\ v = p.row.ver
              \/ v \in Untold(K)'
         /\ \A v \in Untold(K)' :
              \/ c \in Telling' /\ call'[c].kind \in K /\ v = call'[c].row.ver
              \/ \E p \in net' \ net : p.kind \in K /\ v = p.row.ver
              \/ v \in Untold(K)
         /\ \A r \in ToldRows :
              \/ c \in MsgCalls /\ call[c].pc = "emit" /\ r = call[c].row
              \/ \E p \in net \ net' : p.kind # "fetch" /\ r = p.row
              \/ r \in ToldRows'
         /\ \A r \in ToldRows' :
              \/ c \in MsgCalls /\ call'[c].pc = "emit" /\ r = call'[c].row
              \/ \E p \in net' \ net : p.kind # "fetch" /\ r = p.row
              \/ r \in ToldRows
<1>1. \A d \in MsgCalls \ {c} : d \in Telling' <=> d \in Telling BY DEF Telling
<1>2. ASSUME NEW v \in Untold(K)
      PROVE  \/ c \in Telling /\ call[c].kind \in K /\ v = call[c].row.ver
             \/ \E p \in net \ net' : p.kind \in K /\ v = p.row.ver
             \/ v \in Untold(K)'
  <2>1. CASE \E d \in Telling : call[d].kind \in K /\ v = call[d].row.ver
    <3>1. PICK d \in Telling : call[d].kind \in K /\ v = call[d].row.ver BY <2>1
    <3>2. CASE d = c BY <3>1, <3>2
    <3>3. CASE d # c
      <4>1. d \in Telling' /\ call'[d] = call[d] BY <1>1, <3>3 DEF Telling
      <4>2. QED BY <3>1, <4>1 DEF Untold
    <3>4. QED BY <3>2, <3>3
  <2>2. CASE \E p \in net : p.kind \in K /\ v = p.row.ver BY <2>2 DEF Untold
  <2>3. QED BY <2>1, <2>2 DEF Untold
<1>3. ASSUME NEW v \in Untold(K)'
      PROVE  \/ c \in Telling' /\ call'[c].kind \in K /\ v = call'[c].row.ver
             \/ \E p \in net' \ net : p.kind \in K /\ v = p.row.ver
             \/ v \in Untold(K)
  <2>1. CASE \E d \in Telling' : call'[d].kind \in K /\ v = call'[d].row.ver
    <3>1. PICK d \in Telling' : call'[d].kind \in K /\ v = call'[d].row.ver BY <2>1
    <3>2. CASE d = c BY <3>1, <3>2
    <3>3. CASE d # c
      <4>1. d \in Telling /\ call'[d] = call[d] BY <1>1, <3>3 DEF Telling
      <4>2. QED BY <3>1, <4>1 DEF Untold
    <3>4. QED BY <3>2, <3>3
  <2>2. CASE \E p \in net' : p.kind \in K /\ v = p.row.ver BY <2>2 DEF Untold
  <2>3. QED BY <2>1, <2>2 DEF Untold
<1>4. ASSUME NEW r \in ToldRows
      PROVE  \/ c \in MsgCalls /\ call[c].pc = "emit" /\ r = call[c].row
             \/ \E p \in net \ net' : p.kind # "fetch" /\ r = p.row
             \/ r \in ToldRows'
  BY DEF ToldRows
<1>5. ASSUME NEW r \in ToldRows'
      PROVE  \/ c \in MsgCalls /\ call'[c].pc = "emit" /\ r = call'[c].row
             \/ \E p \in net' \ net : p.kind # "fetch" /\ r = p.row
             \/ r \in ToldRows
  BY DEF ToldRows
<1>6. QED BY <1>1, <1>2, <1>3, <1>4, <1>5

(* A step that leaves the message as it is, and the page. *)
Quiet(c) ==
  /\ row' = row /\ seen' \in 0..MaxVer /\ seen' >= seen /\ seen' <= row.ver
  /\ disturbed' \in BOOLEAN /\ (disturbed => disturbed')
  /\ call' \in [MsgCalls -> MsgCall] /\ \A d \in MsgCalls \ {c} : call'[d] = call[d]
  /\ c \in MsgCalls => CallShape(c)' /\ (call'[c].pc = "create" => call[c].pc = "create")
  /\ net' \subseteq Packet /\ \A p \in net' \ net : PacketShape(p)'
  /\ sent' = sent

LEMMA QuietShape ==
  ASSUME ThreadTypeOK, ThreadShape, NEW c, Quiet(c), page' = page
  PROVE  ThreadTypeOK' /\ ThreadShape'
<1>1. /\ row' = row /\ seen' \in 0..MaxVer /\ seen' <= row.ver
      /\ disturbed' \in BOOLEAN /\ (disturbed => disturbed')
      /\ call' \in [MsgCalls -> MsgCall] /\ \A d \in MsgCalls \ {c} : call'[d] = call[d]
      /\ c \in MsgCalls => CallShape(c)' /\ (call'[c].pc = "create" => call[c].pc = "create")
      /\ net' \subseteq Packet /\ \A p \in net' \ net : PacketShape(p)'
      /\ sent' = sent
  BY DEF Quiet
<1>2. ThreadTypeOK' BY <1>1 DEF ThreadTypeOK
<1>3. ASSUME NEW d \in MsgCalls, d # c PROVE CallShape(d)'
  <2>1. CallShape(d) /\ call'[d] = call[d] BY <1>1, <1>3 DEF ThreadShape
  <2>2. d \in Telling' <=> d \in Telling BY <1>1, <1>3 DEF Telling
  <2>3. QED BY <1>1, <2>1, <2>2 DEF CallShape
<1>4. ASSUME NEW p \in net' PROVE PacketShape(p)'
  <2>1. CASE p \in net
    <3>1. PacketShape(p) BY <2>1 DEF ThreadShape
    <3>2. QED BY <1>1, <3>1 DEF PacketShape, Serialized
  <2>2. QED BY <1>1, <2>1
<1>5. PageShape' BY <1>1 DEF ThreadShape, PageShape
<1>6. QED BY <1>1, <1>2, <1>3, <1>4, <1>5 DEF ThreadShape

(* Nothing is forgotten: what is taken from the way was old, or the page   *)
(* is told of it.                                                          *)
LEMMA QuietKeeps ==
  ASSUME ThreadInv, NEW c, Quiet(c), page' = page,
         StillUntold(News), StillUntold(Texts), StillUntold(Reactions),
         \A r \in ToldRows' : r \in ToldRows \/ Fresh(r)',
         ~disturbed' =>
           /\ \A r \in ToldRows : r \in ToldRows' \/ r.ver >= seen \/ \E q \in ToldRows' : q.ver = r.ver
           /\ seen' = seen
           /\ \A K \in {News, Texts, Reactions} : Untold(K) # {} => Untold(K)' # {}
  PROVE  ThreadInv'
<1> USE DEF ThreadInv
<1>1. ThreadTypeOK' /\ ThreadShape' BY QuietShape
<1>2. /\ row' = row /\ seen' \in Nat /\ seen' >= seen /\ disturbed' \in BOOLEAN
      /\ (~disturbed' => ~disturbed)
  BY ThreadAssumption DEF Quiet
<1>3. \A K \in {News, Texts, Reactions} : \A v \in Untold(K)' : v \in Nat
  <2>1. (\A K \in {News, Texts, Reactions} : \A v \in Untold(K) : v \in 1..row.ver)'
    BY <1>1, OnTheWay, PTL
  <2>2. QED BY <2>1
<1>4. AllFresh' BY <1>2, <1>3, QuietKeepsFresh DEF AllFresh
<1>5. PageKnows'
  <2>1. CASE disturbed' BY <2>1 DEF PageKnows
  <2>2. CASE ~disturbed'
    <3>1. ~Late' => ~Late BY <1>2, <2>2, OnTheWay DEF Late
    <3>2. QED BY <1>2, <2>2, <3>1, QuietKeepsPage
  <2>3. QED BY <1>2, <2>1, <2>2
<1>6. QED BY <1>1, <1>4, <1>5

(* A step that tells nothing, to nobody. *)
LEMMA SilentKeeps ==
  ASSUME ThreadInv, NEW c, Quiet(c), page' = page, seen' = seen,
         c \notin Telling, c \notin Telling',
         \A p \in (net \ net') \cup (net' \ net) : p.kind = "fetch"
  PROVE  ThreadInv'
<1> USE DEF ThreadInv
<1>1. call' \in [MsgCalls -> MsgCall] /\ \A d \in MsgCalls \ {c} : call'[d] = call[d] BY DEF Quiet
<1>2. c \in MsgCalls => call[c].pc # "emit" /\ call'[c].pc # "emit" BY DEF Telling
<1>3. ASSUME NEW K \in {News, Texts, Reactions} PROVE Untold(K)' = Untold(K)
  <2>1. "fetch" \notin K BY DEF News, Texts, Reactions
  <2>2. \A v \in Untold(K) : v \in Untold(K)' BY <1>1, <2>1, OthersStay
  <2>3. \A v \in Untold(K)' : v \in Untold(K) BY <1>1, <2>1, OthersStay
  <2>4. QED BY <2>2, <2>3
<1>4. ToldRows' = ToldRows BY <1>1, <1>2, OthersStay
<1>5. \A K \in {News, Texts, Reactions} : StillUntold(K)
  BY <1>3, OnTheWay DEF StillUntold
<1>6. QED BY <1>3, <1>4, <1>5, QuietKeeps

LEMMA CallOf ==
  ASSUME ThreadTypeOK, ThreadShape, NEW c \in MsgCalls
  PROVE  /\ call \in [MsgCalls -> MsgCall] /\ call[c] \in MsgCall /\ CallShape(c)
         /\ call[c].row \in Row /\ call[c].row.ver \in 0..MaxVer /\ call[c].kind \in Event
         /\ call[c].row.ver <= row.ver /\ row.ver \in 0..MaxVer /\ MaxVer \in Nat /\ row \in Row
         /\ seen \in 0..MaxVer /\ seen <= row.ver
BY ThreadAssumption DEF ThreadTypeOK, ThreadShape, CallShape, MsgCall, Row

LEMMA NoCallShape ==
  ASSUME ThreadTypeOK, NEW c \in MsgCalls, call'[c] = NoCall, row' = row
  PROVE  CallShape(c)' /\ c \notin Telling' /\ call'[c].pc # "create" /\ call'[c].pc # "emit"
<1>1. call'[c].pc = "idle" /\ call'[c].row.ver = 0 BY DEF NoCall, NoRow
<1>2. row.ver \in Nat BY ThreadAssumption DEF ThreadTypeOK, Row
<1>3. c \notin Telling' BY <1>1 DEF Telling
<1>4. QED BY <1>1, <1>2, <1>3 DEF CallShape

LEMMA FindKeeps ==
  ASSUME ThreadInv, NEW c \in MsgCalls, FindMessage(c)
  PROVE  ThreadInv'
<1> USE DEF ThreadInv
<1>1. PICK k \in {"edited", "deleted", "reaction"}, mine \in BOOLEAN :
        call' = [call EXCEPT ![c] = [pc |-> CASE k = "edited" -> "edit" [] k = "deleted" -> "delete"
                                              [] OTHER -> "react",
                                     kind |-> k, mine |-> mine, row |-> NoRow]]
  BY DEF FindMessage
<1> DEFINE pc == CASE k = "edited" -> "edit" [] k = "deleted" -> "delete" [] OTHER -> "react"
           x == [pc |-> pc, kind |-> k, mine |-> mine, row |-> NoRow]
<1>2. /\ call[c].pc = "idle" /\ row.ver > 0
      /\ row' = row /\ sent' = sent /\ page' = page /\ net' = net /\ seen' = seen /\ disturbed' = disturbed
  BY DEF FindMessage
<1>3. pc \in {"edit", "delete", "react"} /\ pc \in MsgPCs BY DEF MsgPCs
<1>4. x \in MsgCall BY <1>3, ThreadRecords DEF MsgCall, Event
<1>5. /\ call' \in [MsgCalls -> MsgCall] /\ call'[c] = x
      /\ \A d \in MsgCalls \ {c} : call'[d] = call[d]
  BY <1>1, <1>4, CallReplaced
<1>6. call'[c].pc = pc /\ call'[c].kind = k /\ call'[c].row.ver = 0 BY <1>5 DEF NoRow
<1>7. c \notin Telling /\ c \notin Telling' BY <1>2, <1>3, <1>6 DEF Telling
<1>8. CallShape(c)' BY <1>2, <1>3, <1>6, <1>7, CallOf DEF CallShape
<1>9. Quiet(c)
  <2>1. seen \in 0..MaxVer /\ seen >= seen /\ seen <= row.ver /\ net \subseteq Packet /\ disturbed \in BOOLEAN
    BY CallOf DEF ThreadTypeOK
  <2>2. QED BY <1>2, <1>3, <1>5, <1>6, <1>8, <2>1 DEF Quiet
<1>10. QED BY <1>2, <1>7, <1>9, SilentKeeps

LEMMA ReadKeeps ==
  ASSUME ThreadInv, NEW c \in MsgCalls, ReadMessage(c)
  PROVE  ThreadInv'
<1> USE DEF ThreadInv
<1> DEFINE x == [call[c] EXCEPT !.pc = "emit", !.row = row]
<1>1. /\ call[c].pc = "read" /\ call' = [call EXCEPT ![c] = x]
      /\ row' = row /\ sent' = sent /\ page' = page /\ net' = net /\ seen' = seen /\ disturbed' = disturbed
  BY CallOf DEF ReadMessage
<1>2. x \in MsgCall /\ x.pc = "emit" /\ x.kind = call[c].kind /\ x.row = row
  BY CallOf DEF MsgCall, MsgPCs
<1> HIDE DEF x
<1>3. /\ call' \in [MsgCalls -> MsgCall] /\ call'[c] = x
      /\ \A d \in MsgCalls \ {c} : call'[d] = call[d]
  BY <1>1, <1>2, CallReplaced
<1>4. c \in Telling /\ c \in Telling' BY <1>1, <1>2, <1>3 DEF Telling
<1>5. call[c].row.ver > 0 /\ call[c].kind \in {"new", "reaction"} /\ call[c].row.ver <= row.ver /\ row.ver \in Nat
      /\ call[c].row.ver \in Nat
  BY <1>1, <1>4, CallOf DEF CallShape
<1>6. CallShape(c)' BY <1>1, <1>2, <1>3, <1>4, <1>5 DEF CallShape
<1>7. Quiet(c)
  <2>1. seen \in 0..MaxVer /\ seen >= seen /\ seen <= row.ver /\ net \subseteq Packet /\ disturbed \in BOOLEAN
    BY CallOf DEF ThreadTypeOK
  <2>2. QED BY <1>1, <1>2, <1>3, <1>6, <2>1 DEF Quiet
<1>8. ASSUME NEW K \in {News, Texts, Reactions}
      PROVE  StillUntold(K) /\ (Untold(K) # {} => Untold(K)' # {})
  <2>1. ASSUME NEW v \in Untold(K) PROVE \E w \in Untold(K)' : w >= v
    <3>1. v \in Nat BY OnTheWay
    <3>2. CASE c \in Telling /\ call[c].kind \in K /\ v = call[c].row.ver
      <4>1. call'[c].row.ver \in Untold(K)' BY <1>2, <1>3, <1>4, <3>2 DEF Untold
      <4>2. call'[c].row.ver >= v BY <1>2, <1>3, <1>5, <3>2
      <4>3. QED BY <4>1, <4>2
    <3>3. CASE v \in Untold(K)' BY <3>1, <3>3
    <3>4. QED BY <1>1, <1>3, <3>2, <3>3, OthersStay
  <2>2. QED BY <2>1 DEF StillUntold
<1>9. \A r \in ToldRows : r \in ToldRows' BY <1>1, <1>3, OthersStay
<1>10. ASSUME NEW r \in ToldRows' PROVE r \in ToldRows \/ Fresh(r)'
  <2>1. CASE r = row
    <3>1. r \in Row /\ r.ver = row.ver BY <2>1, CallOf
    <3>2. r.ver # 0 /\ Serialized(r).deleted = r.deleted BY <1>5, <3>1, SerializedRow
    <3>3. SameText(Serialized(r))' BY <1>1, <2>1, <3>2 DEF SameText, Serialized
    <3>4. QED BY <1>1, <2>1, <3>2, <3>3 DEF Fresh
  <2>2. QED BY <1>1, <1>2, <1>3, <2>1, OthersStay
<1>11. QED BY <1>1, <1>7, <1>8, <1>9, <1>10, QuietKeeps

LEMMA EmitKeeps ==
  ASSUME ThreadInv, NEW c \in MsgCalls, EmitMessage(c)
  PROVE  ThreadInv'
<1> USE DEF ThreadInv
<1> DEFINE k == call[c].kind
           r0 == Serialized(call[c].row)
           told == [kind |-> k, row |-> r0, nonce |-> k = "new"]
           answer == [told EXCEPT !.kind = "answer"]
<1>1. /\ call[c].pc = "emit" /\ call' = [call EXCEPT ![c] = NoCall]
      /\ net' = net \cup {told} \cup (IF call[c].mine THEN {answer} ELSE {})
      /\ row' = row /\ sent' = sent /\ page' = page /\ seen' = seen /\ disturbed' = disturbed
  BY DEF EmitMessage
<1>2. c \in Telling BY <1>1 DEF Telling
<1>3. /\ call' \in [MsgCalls -> MsgCall] /\ call'[c] = NoCall
      /\ \A d \in MsgCalls \ {c} : call'[d] = call[d]
  BY <1>1, ThreadRecords, CallReplaced
<1>4. /\ r0 \in Row /\ r0.ver = call[c].row.ver /\ r0.deleted = call[c].row.deleted
      /\ Serialized(r0) = r0 /\ r0.reacted = call[c].row.reacted
  BY CallOf, SerializedRow
<1>5. r0.ver > 0 /\ r0.ver <= row.ver /\ r0.ver \in Nat /\ row.ver \in Nat
  BY <1>2, <1>4, CallOf DEF CallShape
<1>6. k = "deleted" => r0.deleted BY <1>1, <1>4, CallOf DEF CallShape
<1>7. k \in Event BY CallOf
<1> HIDE DEF r0
<1>8. told \in Packet /\ answer \in Packet /\ told.row = r0 /\ answer.row = r0
      /\ told.kind = k /\ answer.kind = "answer" /\ (told.nonce <=> k = "new")
  BY <1>4, <1>7 DEF Packet
<1> HIDE DEF told, answer
<1>9. /\ net \subseteq net' /\ told \in net' /\ net' \subseteq Packet
      /\ \A p \in net' \ net : p = told \/ p = answer
  BY <1>1, <1>8 DEF ThreadTypeOK
<1>10. ASSUME NEW p \in net' \ net PROVE PacketShape(p)'
  <2>1. p.row = r0 /\ (p.kind = "deleted" => r0.deleted) /\ (p.kind = "new" => p.nonce)
    BY <1>6, <1>8, <1>9
  <2>2. Serialized(p.row)' = p.row BY <1>4, <2>1 DEF Serialized
  <2>3. QED BY <1>1, <1>5, <2>1, <2>2 DEF PacketShape, Serialized
<1>11. CallShape(c)' /\ c \notin Telling' /\ call'[c].pc # "create" /\ call'[c].pc # "emit"
  BY <1>1, <1>3, NoCallShape
<1>12. Quiet(c)
  <2>1. seen \in 0..MaxVer /\ seen >= seen /\ seen <= row.ver /\ disturbed \in BOOLEAN
    BY CallOf DEF ThreadTypeOK
  <2>2. QED BY <1>1, <1>3, <1>9, <1>10, <1>11, <2>1 DEF Quiet
<1>13. ASSUME NEW K \in {News, Texts, Reactions}
       PROVE  /\ StillUntold(K) /\ (Untold(K) # {} => Untold(K)' # {})
              /\ \A v \in Untold(K) : v \in Untold(K)'
  <2>1. ASSUME NEW v \in Untold(K) PROVE v \in Untold(K)'
    <3>1. CASE c \in Telling /\ call[c].kind \in K /\ v = call[c].row.ver
      <4>1. told.kind \in K /\ told.row.ver = v BY <1>4, <1>8, <3>1
      <4>2. QED BY <1>9, <4>1 DEF Untold
    <3>2. QED BY <1>3, <1>9, <3>1, OthersStay
  <2>2. \A v \in Untold(K) : v \in Nat BY OnTheWay
  <2>3. QED BY <2>1, <2>2 DEF StillUntold
<1>14. ASSUME NEW r \in ToldRows' PROVE r \in ToldRows \/ Fresh(r)'
  <2>1. CASE r = r0
    <3>1. call[c].row \in ToldRows BY <1>1 DEF ToldRows
    <3>2. Fresh(call[c].row)
      BY <3>1 DEF AllFresh
    <3>3. Serialized(call[c].row) = r0 BY DEF r0
    <3>4. Fresh(r0)
      BY <1>4, <3>2, <3>3 DEF Fresh
    <3>5. r.ver \in Nat /\ r.ver > 0 /\ seen \in Nat BY <1>5, <2>1, OnTheWay
    <3>6. SUFFICES ASSUME r.ver >= seen
                   PROVE  /\ SameText(Serialized(r)) \/ \E v \in Untold(Texts)' : v > r.ver
                          /\ r.reacted = row.reacted \/ \E v \in Untold(Reactions)' : v > r.ver
      BY <1>1, <3>5 DEF Fresh, SameText, Serialized
    <3>7. QED BY <1>13, <2>1, <3>4, <3>5, <3>6 DEF Fresh
  <2>2. CASE r # r0
    <3>1. \A p \in net' \ net : p.row = r0 BY <1>8, <1>9
    <3>2. QED BY <1>3, <1>11, <2>2, <3>1, OthersStay
  <2>3. QED BY <2>1, <2>2
<1>15. ASSUME NEW r \in ToldRows
       PROVE  r \in ToldRows' \/ \E q \in ToldRows' : q.ver = r.ver
  <2>1. CASE r = call[c].row
    <3>1. told \in net' /\ told.kind # "fetch" BY <1>7, <1>8, <1>9 DEF Event
    <3>2. told.row \in ToldRows' BY <3>1 DEF ToldRows
    <3>3. QED BY <1>4, <1>8, <2>1, <3>2
  <2>2. QED BY <1>3, <1>9, <2>1, OthersStay
<1>16. QED BY <1>1, <1>12, <1>13, <1>14, <1>15, QuietKeeps

LEMMA AbandonKeeps ==
  ASSUME ThreadInv, NEW c \in MsgCalls, AbandonMessage(c)
  PROVE  ThreadInv'
<1> USE DEF ThreadInv
<1> DEFINE ver == call[c].row.ver
<1>1. /\ call[c].pc # "idle" /\ seen' = Later(seen, ver)
      /\ disturbed' = (disturbed \/ ver > 0)
      /\ net' = (IF call[c].mine /\ call[c].kind = "new" THEN net \cup {Fetch} ELSE net)
      /\ call' = [call EXCEPT ![c] = NoCall]
      /\ row' = row /\ sent' = sent /\ page' = page
  BY DEF AbandonMessage
<1>2. /\ call' \in [MsgCalls -> MsgCall] /\ call'[c] = NoCall
      /\ \A d \in MsgCalls \ {c} : call'[d] = call[d]
  BY <1>1, ThreadRecords, CallReplaced
<1>3. CallShape(c)' /\ c \notin Telling' /\ call'[c].pc # "create" /\ call'[c].pc # "emit"
  BY <1>1, <1>2, NoCallShape
<1>4. /\ ver \in 0..MaxVer /\ seen \in 0..MaxVer /\ MaxVer \in Nat /\ ver <= row.ver /\ seen <= row.ver
      /\ (ver > 0 <=> c \in Telling)
  BY CallOf DEF CallShape
<1>5. /\ seen' \in 0..MaxVer /\ seen' >= seen /\ seen' >= ver /\ seen' <= row.ver /\ seen' \in Nat
      /\ (ver = 0 => seen' = seen)
  BY <1>1, <1>4 DEF Later
<1>6. /\ net \subseteq net' /\ net' \subseteq Packet /\ \A p \in net' \ net : p = Fetch
  BY <1>1, ThreadRecords DEF ThreadTypeOK
<1>7. Fetch.kind = "fetch" /\ PacketShape(Fetch)'
  <2>1. Fetch.kind = "fetch" /\ Fetch.row = NoRow BY DEF Fetch
  <2>2. NoRow.ver = 0 /\ Serialized(NoRow) = NoRow BY DEF NoRow, Serialized
  <2>3. row.ver \in Nat BY OnTheWay
  <2>4. QED BY <1>1, <2>1, <2>2, <2>3 DEF PacketShape, Serialized
<1>8. Quiet(c)
  <2>1. disturbed \in BOOLEAN BY DEF ThreadTypeOK
  <2>2. QED BY <1>1, <1>2, <1>3, <1>5, <1>6, <1>7, <2>1 DEF Quiet
<1>9. CASE c \notin Telling
  <2>1. seen' = seen BY <1>4, <1>5, <1>9
  <2>2. \A p \in (net \ net') \cup (net' \ net) : p.kind = "fetch" BY <1>6, <1>7
  <2>3. QED BY <1>1, <1>3, <1>8, <1>9, <2>1, <2>2, SilentKeeps
<1>10. CASE c \in Telling
  <2>1. disturbed' BY <1>1, <1>4, <1>10
  <2>2. ASSUME NEW K \in {News, Texts, Reactions} PROVE StillUntold(K)
    <3>1. ASSUME NEW v \in Untold(K) PROVE v <= seen' \/ v \in Untold(K)'
      BY <1>2, <1>5, <1>6, OthersStay
    <3>2. \A v \in Untold(K) : v \in Nat BY OnTheWay
    <3>3. QED BY <3>1, <3>2 DEF StillUntold
  <2>3. \A r \in ToldRows' : r \in ToldRows BY <1>2, <1>3, <1>6, <1>7, OthersStay
  <2>4. QED BY <1>1, <1>8, <2>1, <2>2, <2>3, QuietKeeps
<1>11. QED BY <1>9, <1>10

LEMMA HistoryKeeps ==
  ASSUME ThreadInv, ReadHistory
  PROVE  ThreadInv'
<1> USE DEF ThreadInv
<1> DEFINE c == "page"
<1>1. /\ net' = (net \ {Fetch}) \cup {[kind |-> "history", row |-> Serialized(row), nonce |-> FALSE]}
      /\ call' = call
      /\ row' = row /\ sent' = sent /\ page' = page /\ seen' = seen /\ disturbed' = disturbed
  BY DEF ReadHistory
<1>2. /\ row \in Row /\ row.ver \in Nat /\ seen \in 0..MaxVer /\ seen <= row.ver /\ disturbed \in BOOLEAN
      /\ call \in [MsgCalls -> MsgCall] /\ seen \in Nat
  BY OnTheWay DEF ThreadTypeOK, ThreadShape
<1>3. /\ Serialized(row) \in Row /\ Serialized(Serialized(row)) = Serialized(row)
      /\ Serialized(row).ver = row.ver /\ Serialized(row).reacted = row.reacted
      /\ Serialized(row).deleted = row.deleted
  BY <1>2, SerializedRow
<1>4. PICK p \in Packet : /\ p.row = Serialized(row) /\ p.kind = "history"
                          /\ net' = (net \ {Fetch}) \cup {p}
  BY <1>1, <1>3 DEF Packet
<1>5. /\ net' \subseteq Packet /\ \A q \in net' \ net : q = p
      /\ \A q \in net \ net' : q = Fetch
  BY <1>4 DEF ThreadTypeOK
<1>6. PacketShape(p)'
  <2>1. p.row.ver = row.ver BY <1>3, <1>4
  <2>2. Serialized(p.row)' = p.row BY <1>3, <1>4 DEF Serialized
  <2>3. QED BY <1>1, <1>2, <1>4, <2>1, <2>2 DEF PacketShape, Serialized
<1>7. Fetch.kind = "fetch" BY DEF Fetch
<1>8. c \in MsgCalls => CallShape(c)'
  <2>1. c \in MsgCalls => CallShape(c) BY DEF ThreadShape
  <2>2. Telling' = Telling BY <1>1 DEF Telling
  <2>3. QED BY <1>1, <2>1, <2>2 DEF CallShape
<1>9. Quiet(c) BY <1>1, <1>2, <1>5, <1>6, <1>8 DEF Quiet
<1>10. ASSUME NEW K \in {News, Texts, Reactions} PROVE \A v \in Untold(K) : v \in Untold(K)'
  <2>1. "fetch" \notin K BY DEF News, Texts, Reactions
  <2>2. Telling' = Telling BY <1>1 DEF Telling
  <2>3. ASSUME NEW q \in net, q.kind \in K PROVE q \in net' BY <1>5, <1>7, <2>1, <2>3
  <2>4. QED BY <1>1, <2>2, <2>3 DEF Untold
<1>11. \A K \in {News, Texts, Reactions} : StillUntold(K)
  BY <1>10, OnTheWay DEF StillUntold
<1>12. \A r \in ToldRows : r \in ToldRows' BY <1>1, <1>5, <1>7 DEF ToldRows
<1>13. \A r \in ToldRows' : r \in ToldRows \/ r = Serialized(row) BY <1>1, <1>4, <1>5 DEF ToldRows
<1>14. ASSUME NEW r \in ToldRows', r = Serialized(row) PROVE Fresh(r)'
  <2>1. r.ver = row.ver /\ r.reacted = row.reacted /\ Serialized(r) = r /\ r.deleted = row.deleted
    BY <1>3, <1>14
  <2>2. SameText(Serialized(r))' BY <1>1, <1>14, <2>1 DEF SameText, Serialized
  <2>3. QED BY <1>1, <2>1, <2>2 DEF Fresh
<1>15. \A K \in {News, Texts, Reactions} : Untold(K) # {} => Untold(K)' # {} BY <1>10
<1>16. QED BY <1>1, <1>9, <1>11, <1>12, <1>13, <1>14, <1>15, QuietKeeps

LEMMA RefetchKeeps ==
  ASSUME ThreadInv, Refetch \/ UNCHANGED threadVars
  PROVE  ThreadInv'
<1> USE DEF ThreadInv
<1> DEFINE c == "page"
<1>1. /\ call' = call /\ row' = row /\ sent' = sent /\ page' = page /\ seen' = seen /\ disturbed' = disturbed
      /\ net \subseteq net' /\ \A q \in net' \ net : q = Fetch
  BY DEF Refetch, threadVars
<1>2. /\ row.ver \in Nat /\ seen \in 0..MaxVer /\ seen <= row.ver /\ disturbed \in BOOLEAN
      /\ call \in [MsgCalls -> MsgCall] /\ seen \in Nat /\ net \subseteq Packet
  BY OnTheWay DEF ThreadTypeOK, ThreadShape
<1>3. Fetch.kind = "fetch" /\ PacketShape(Fetch)'
  <2>1. Fetch.kind = "fetch" /\ Fetch.row = NoRow BY DEF Fetch
  <2>2. NoRow.ver = 0 /\ Serialized(NoRow) = NoRow BY DEF NoRow, Serialized
  <2>3. QED BY <1>1, <1>2, <2>1, <2>2 DEF PacketShape, Serialized
<1>4. Telling' = Telling BY <1>1 DEF Telling
<1>5. c \in MsgCalls => CallShape(c)'
  <2>1. c \in MsgCalls => CallShape(c) BY DEF ThreadShape
  <2>2. QED BY <1>1, <1>4, <2>1 DEF CallShape
<1>6. net' \subseteq Packet BY <1>1, <1>2, ThreadRecords
<1>7. Quiet(c) BY <1>1, <1>2, <1>3, <1>5, <1>6 DEF Quiet
<1>8. ASSUME NEW K \in {News, Texts, Reactions}
      PROVE  StillUntold(K) /\ (Untold(K) # {} => Untold(K)' # {})
  <2>1. \A v \in Untold(K) : v \in Untold(K)' BY <1>1, <1>4 DEF Untold
  <2>2. QED BY <2>1, OnTheWay DEF StillUntold
<1>9. ToldRows' = ToldRows BY <1>1, <1>3 DEF ToldRows
<1>10. QED BY <1>1, <1>7, <1>8, <1>9, QuietKeeps

(* A packet is taken. *)
LEMMA PacketTaken ==
  ASSUME ThreadInv, NEW p \in net, p.kind # "fetch", net' = net \ {p}, call' = call, row' = row,
         seen' = Later(seen, p.row.ver)
  PROVE  /\ p \in Packet /\ PacketShape(p) /\ p.row \in ToldRows /\ p.row \in Row /\ p.row.ver \in 0..row.ver
         /\ seen' \in 0..MaxVer /\ seen' >= seen /\ seen' >= p.row.ver /\ seen' <= row.ver
         /\ seen' \in Nat /\ (seen' = seen \/ seen' = p.row.ver)
         /\ \A K \in {News, Texts, Reactions} :
              /\ StillUntold(K)
              /\ p.kind \notin K => \A v \in Untold(K) : v \in Untold(K)'
              /\ \A v \in Untold(K) : v # p.row.ver => v \in Untold(K)'
              /\ \A v \in Untold(K)' : v \in Nat
         /\ \A r \in ToldRows : r = p.row \/ r \in ToldRows'
         /\ \A r \in ToldRows' : r \in ToldRows
         /\ AllFresh'
<1> USE DEF ThreadInv
<1>1. p \in Packet /\ PacketShape(p) /\ p.row \in ToldRows BY DEF ThreadTypeOK, ThreadShape, ToldRows
<1>2. p.row \in Row /\ p.row.ver \in 0..row.ver /\ row.ver \in 0..MaxVer /\ MaxVer \in Nat
      /\ seen \in 0..MaxVer /\ seen <= row.ver
  BY <1>1, OnTheWay, ThreadAssumption DEF ThreadTypeOK, ThreadShape, Row
<1>3. /\ seen' \in 0..MaxVer /\ seen' >= seen /\ seen' >= p.row.ver /\ seen' <= row.ver
      /\ seen' \in Nat /\ (seen' = seen \/ seen' = p.row.ver)
  BY <1>2 DEF Later
<1>4. Telling' = Telling BY DEF Telling
<1>5. ASSUME NEW K \in {News, Texts, Reactions}
      PROVE  /\ StillUntold(K)
             /\ p.kind \notin K => \A v \in Untold(K) : v \in Untold(K)'
             /\ \A v \in Untold(K) : v # p.row.ver => v \in Untold(K)'
             /\ \A v \in Untold(K)' : v \in Nat
  <2>1. ASSUME NEW v \in Untold(K) PROVE v \in Untold(K)' \/ (v = p.row.ver /\ p.kind \in K)
    <3>1. CASE \E d \in Telling : call[d].kind \in K /\ v = call[d].row.ver
      BY <1>4, <3>1 DEF Untold
    <3>2. CASE \E q \in net : q.kind \in K /\ v = q.row.ver BY <3>2 DEF Untold
    <3>3. QED BY <3>1, <3>2 DEF Untold
  <2>2. ASSUME NEW v \in Untold(K)' PROVE v \in Untold(K) BY <1>4 DEF Untold
  <2>3. \A v \in Untold(K) : v \in Nat BY OnTheWay
  <2>4. QED BY <1>3, <2>1, <2>2, <2>3 DEF StillUntold
<1>6. \A r \in ToldRows : r = p.row \/ r \in ToldRows' BY DEF ToldRows
<1>7. \A r \in ToldRows' : r \in ToldRows BY DEF ToldRows
<1>8. AllFresh' BY <1>3, <1>5, <1>7, QuietKeepsFresh DEF AllFresh
<1>9. QED BY <1>1, <1>2, <1>3, <1>5, <1>6, <1>7, <1>8

LEMMA MissKeeps ==
  ASSUME ThreadInv, NEW p \in net, MissEvent(p)
  PROVE  ThreadInv'
<1> USE DEF ThreadInv
<1> DEFINE c == "page"
<1>1. /\ net' = net \ {p} /\ call' = call /\ row' = row /\ sent' = sent /\ page' = page
      /\ seen' = Later(seen, p.row.ver) /\ disturbed' = TRUE /\ p.kind # "fetch"
  BY DEF MissEvent, Event
<1>2. seen' \in 0..MaxVer /\ seen' >= seen /\ seen' <= row.ver /\ AllFresh' BY <1>1, PacketTaken
<1>3. Telling' = Telling BY <1>1 DEF Telling
<1>4. c \in MsgCalls => CallShape(c)'
  <2>1. c \in MsgCalls => CallShape(c) BY DEF ThreadShape
  <2>2. QED BY <1>1, <1>3, <2>1 DEF CallShape
<1>5. Quiet(c) BY <1>1, <1>2, <1>4 DEF Quiet, ThreadTypeOK
<1>6. ThreadTypeOK' /\ ThreadShape' BY <1>1, <1>5, QuietShape
<1>7. PageKnows' BY <1>1 DEF PageKnows
<1>8. QED BY <1>2, <1>6, <1>7

LEMMA SendKeeps ==
  ASSUME ThreadInv, NEW c \in MsgCalls, SendMessage(c)
  PROVE  ThreadInv'
<1> USE DEF ThreadInv
<1> DEFINE r == [NoRow EXCEPT !.text = 1]
           e == [real |-> FALSE, nonce |-> TRUE, row |-> r]
           k == [pc |-> "create", kind |-> "new", mine |-> TRUE, row |-> NoRow]
<1>1. /\ ~sent /\ call[c].pc = "idle" /\ sent' = TRUE /\ page' = Append(page, e)
      /\ call' = [call EXCEPT ![c] = k]
      /\ row' = row /\ net' = net /\ seen' = seen /\ disturbed' = disturbed
  BY DEF SendMessage
<1>2. row.ver = 0 /\ page = <<>> /\ \A d \in MsgCalls : call[d].pc # "create"
  BY <1>1 DEF ThreadShape
<1>3. e \in CacheEntry /\ ~e.real /\ e.nonce
  <2>1. 0 \in 0..MaxVer /\ 1 \in 0..MaxVer BY ThreadAssumption
  <2>2. r \in Row BY <2>1 DEF NoRow, Row
  <2>3. QED BY <2>2 DEF CacheEntry
<1>4. k \in MsgCall /\ k.pc = "create" /\ k.kind = "new" /\ k.row.ver = 0
  BY ThreadRecords DEF MsgCall, MsgPCs, Event, NoRow
<1> HIDE DEF e, k
<1>5. page' \in Seq(CacheEntry) /\ Len(page') = 1 /\ DOMAIN page' = {1} /\ page'[1] = e
  BY <1>1, <1>2, <1>3
<1>6. /\ call' \in [MsgCalls -> MsgCall] /\ call'[c] = k
      /\ \A d \in MsgCalls \ {c} : call'[d] = call[d]
  BY <1>1, <1>4, CallReplaced
<1>7. Telling' = Telling /\ c \notin Telling BY <1>1, <1>4, <1>6 DEF Telling
<1>8. ThreadTypeOK' BY <1>1, <1>5, <1>6 DEF ThreadTypeOK
<1>9. ThreadShape'
  <2>1. ASSUME NEW d \in MsgCalls PROVE CallShape(d)'
    <3>1. CASE d = c BY <1>1, <1>2, <1>4, <1>6, <1>7, <3>1 DEF CallShape
    <3>2. CASE d # c
      <4>1. CallShape(d) /\ call'[d] = call[d] BY <1>6, <3>2 DEF ThreadShape
      <4>2. QED BY <1>1, <1>2, <1>7, <4>1 DEF CallShape
    <3>3. QED BY <3>1, <3>2
  <2>2. \A d, f \in MsgCalls : call'[d].pc = "create" /\ call'[f].pc = "create" => d = f
    BY <1>2, <1>6
  <2>3. ASSUME NEW p \in net PROVE PacketShape(p)'
    <3>1. PacketShape(p) BY DEF ThreadShape
    <3>2. QED BY <1>1, <3>1 DEF PacketShape, Serialized
  <2>4. PageShape' BY <1>1, <1>3, <1>5 DEF PageShape
  <2>5. seen' <= row'.ver BY <1>1 DEF ThreadShape
  <2>6. QED BY <1>1, <2>1, <2>2, <2>3, <2>4, <2>5 DEF ThreadShape
<1>10. ToldRows' = ToldRows BY <1>1, <1>4, <1>6 DEF ToldRows
<1>11. ASSUME NEW K \in {News, Texts, Reactions} PROVE Untold(K)' = Untold(K)
  BY <1>1, <1>6, <1>7 DEF Untold
<1>12. AllFresh' BY <1>1, <1>10, <1>11 DEF AllFresh, Fresh, SameText, Serialized
<1>13. PageKnows' BY <1>1, <1>2 DEF PageKnows
<1>14. QED BY <1>8, <1>9, <1>12, <1>13

(* What a packet taken in turn shows is the message, but for what is still *)
(* to be told.                                                             *)
LEMMA TakenFresh ==
  ASSUME ThreadInv, NEW p \in net, p.kind # "fetch", net' = net \ {p}, call' = call, row' = row,
         seen' = Later(seen, p.row.ver), p.row.ver >= seen
  PROVE  /\ Serialized(p.row) = p.row /\ seen' = p.row.ver
         /\ p.row.ver = 0 => row.ver = 0 \/ Untold(News)' # {}
         /\ p.row.ver > 0 => /\ SameText(p.row) \/ Untold(Texts)' # {}
                             /\ p.row.reacted = row.reacted \/ Untold(Reactions)' # {}
         /\ ~Late' => ~Late
<1> USE DEF ThreadInv
<1>1. /\ PacketShape(p) /\ p.row \in ToldRows /\ p.row.ver \in 0..row.ver
      /\ \A K \in {News, Texts, Reactions} : \A v \in Untold(K) : v # p.row.ver => v \in Untold(K)'
      /\ \A r \in ToldRows : r = p.row \/ r \in ToldRows'
      /\ seen' >= seen
  BY PacketTaken
<1>2. row.ver \in Nat /\ seen \in Nat /\ p.row.ver \in Nat BY <1>1, OnTheWay
<1>3. Serialized(p.row) = p.row BY <1>1 DEF PacketShape
<1>4. seen' = p.row.ver BY <1>2 DEF Later
<1>5. Fresh(p.row) BY <1>1 DEF AllFresh
<1>6. ASSUME NEW K \in {News, Texts, Reactions}, \E v \in Untold(K) : v > p.row.ver
      PROVE  Untold(K)' # {}
  <2>1. PICK v \in Untold(K) : v > p.row.ver BY <1>6
  <2>2. v # p.row.ver BY <1>2, <2>1
  <2>3. QED BY <1>1, <2>2
<1>7. p.row.ver = 0 => row.ver = 0 \/ Untold(News)' # {} BY <1>5, <1>6 DEF Fresh
<1>8. p.row.ver > 0 => /\ SameText(p.row) \/ Untold(Texts)' # {}
                       /\ p.row.reacted = row.reacted \/ Untold(Reactions)' # {}
  BY <1>3, <1>5, <1>6 DEF Fresh
<1>9. ~Late' => ~Late
  <2>1. SUFFICES ASSUME NEW r \in ToldRows, r.ver < seen PROVE Late' BY DEF Late
  <2>2. r.ver \in Nat BY OnTheWay
  <2>3. r # p.row BY <1>2, <2>1, <2>2
  <2>4. r.ver < seen' BY <1>2, <1>4, <2>1, <2>2
  <2>5. QED BY <1>1, <2>3, <2>4 DEF Late
<1>10. QED BY <1>3, <1>4, <1>7, <1>8, <1>9

LEMMA TakenKeeps ==
  ASSUME ThreadInv, NEW p \in net, p.kind # "fetch", net' = net \ {p}, call' = call, row' = row,
         seen' = Later(seen, p.row.ver), sent' = sent, disturbed' \in BOOLEAN,
         page' \in Seq(CacheEntry), Len(page') <= 2, ~sent => page' = <<>>, PageShape', PageKnows'
  PROVE  ThreadInv'
<1> USE DEF ThreadInv
<1>1. seen' \in 0..MaxVer /\ seen' <= row.ver /\ AllFresh' BY PacketTaken
<1>2. ThreadTypeOK' BY <1>1 DEF ThreadTypeOK
<1>3. Telling' = Telling BY DEF Telling
<1>4. ASSUME NEW d \in MsgCalls PROVE CallShape(d)'
  <2>1. CallShape(d) BY DEF ThreadShape
  <2>2. QED BY <1>3, <2>1 DEF CallShape
<1>5. ASSUME NEW q \in net' PROVE PacketShape(q)'
  <2>1. PacketShape(q) BY DEF ThreadShape
  <2>2. QED BY <2>1 DEF PacketShape, Serialized
<1>6. ThreadShape' BY <1>1, <1>4, <1>5 DEF ThreadShape
<1>7. QED BY <1>1, <1>2, <1>6

(* Every entry of a page is changed. *)
LEMMA EntriesChanged ==
  ASSUME NEW s \in Seq(CacheEntry), NEW f, f = [i \in DOMAIN s |-> f[i]],
         \A i \in DOMAIN s : f[i] \in CacheEntry
  PROVE  f \in Seq(CacheEntry) /\ Len(f) = Len(s) /\ DOMAIN f = DOMAIN s
<1>1. Len(s) \in Nat /\ DOMAIN s = 1..Len(s) OBVIOUS
<1>2. f \in [1..Len(s) -> CacheEntry] BY <1>1
<1>3. QED BY <1>1, <1>2

LEMMA UpsertKeeps ==
  ASSUME ThreadInv, NEW p \in net, Receive(p), p.kind \in {"new", "edited", "answer"}
  PROVE  ThreadInv'
<1> USE DEF ThreadInv
<1> DEFINE Same(e) == e.real \/ (p.nonce /\ e.nonce)
<1>1. /\ p.kind # "fetch" /\ net' = net \ {p} /\ call' = call /\ row' = row /\ sent' = sent
      /\ seen' = Later(seen, p.row.ver) /\ page' = Upserted(p)
      /\ disturbed' = (OutOfTurn(p) \/ disturbed)
  BY DEF Receive
<1>2. /\ p \in Packet /\ PacketShape(p) /\ p.row \in Row /\ p.row.ver \in 0..row.ver
  BY <1>1, PacketTaken
<1>3. /\ p.row.ver > 0 /\ row.ver > 0 /\ row.ver \in Nat /\ sent /\ (p.kind = "new" => p.nonce)
      /\ p.row.ver \in Nat /\ seen \in Nat
  BY <1>2, OnTheWay DEF PacketShape, ThreadShape
<1>4. /\ page \in Seq(CacheEntry) /\ Len(page) \in Nat /\ Len(page) <= 2 /\ DOMAIN page = 1..Len(page)
      /\ \A i \in DOMAIN page : page[i] \in CacheEntry /\ (page[i].real \/ page[i].nonce)
      /\ Len(page) = 2 => \E i \in DOMAIN page : page[i].real
      /\ ~disturbed => Len(page) <= 1
  BY DEF ThreadTypeOK, ThreadShape, PageShape
<1>5. Shown(p) \in CacheEntry /\ Shown(p).real /\ Shown(p).row = p.row
  BY <1>2 DEF Shown, CacheEntry, Packet
<1>6. /\ page' \in Seq(CacheEntry) /\ Len(page') <= 2
      /\ \A i \in DOMAIN page' : page'[i] = Shown(p) \/ (~page'[i].real /\ page'[i].nonce)
      /\ \E i \in DOMAIN page' : page'[i] = Shown(p)
      /\ ~disturbed' => Len(page') <= 1
  <2>1. CASE \E i \in DOMAIN page : Same(page[i])
    <3>1. page' = [i \in DOMAIN page |-> IF Same(page[i]) THEN Shown(p) ELSE page[i]]
      BY <1>1, <2>1 DEF Upserted
    <3>2. \A i \in DOMAIN page : page'[i] = IF Same(page[i]) THEN Shown(p) ELSE page[i] BY <3>1
    <3>3. page' \in Seq(CacheEntry) /\ Len(page') = Len(page) /\ DOMAIN page' = DOMAIN page
      BY <1>4, <1>5, <3>1, <3>2, EntriesChanged
    <3>4. QED BY <1>1, <1>4, <2>1, <3>2, <3>3
  <2>2. CASE ~\E i \in DOMAIN page : Same(page[i])
    <3>1. page' = Append(page, Shown(p)) BY <1>1, <2>2 DEF Upserted
    <3>2. \A i \in DOMAIN page : ~page[i].real /\ page[i].nonce /\ ~p.nonce BY <1>4, <2>2
    <3>3. Len(page) <= 1 BY <1>4, <3>2
    <3>4. /\ page' \in Seq(CacheEntry) /\ Len(page') = Len(page) + 1
          /\ page'[Len(page) + 1] = Shown(p) /\ \A i \in DOMAIN page : page'[i] = page[i]
          /\ DOMAIN page' = 1..(Len(page) + 1)
      BY <1>4, <1>5, <3>1
    <3>5. \A i \in DOMAIN page' : i = Len(page) + 1 \/ i \in DOMAIN page BY <1>4, <3>4
    <3>6. Len(page) = 1 => disturbed'
      <4>1. SUFFICES ASSUME Len(page) = 1 PROVE OutOfTurn(p) BY <1>1
      <4>2. ~p.nonce BY <1>4, <3>2, <4>1
      <4>3. QED BY <1>3, <3>2, <4>2 DEF OutOfTurn
    <3>7. Len(page) + 1 \in DOMAIN page' BY <1>4, <3>4
    <3>8. \A i \in DOMAIN page' : page'[i] = Shown(p) \/ (~page'[i].real /\ page'[i].nonce)
      BY <3>2, <3>4, <3>5
    <3>9. Len(page') <= 2 /\ (~disturbed' => Len(page') <= 1) BY <1>4, <3>3, <3>4, <3>6
    <3>10. QED BY <3>4, <3>7, <3>8, <3>9
  <2>3. QED BY <2>1, <2>2
<1>7. PageShape' BY <1>1, <1>3, <1>5, <1>6 DEF PageShape
<1>8. PageKnows'
  <2>1. SUFFICES ASSUME ~disturbed' PROVE PageFresh' BY DEF PageKnows
  <2>2. p.row.ver >= seen
    <3>1. ~OutOfTurn(p) BY <1>1, <2>1
    <3>2. QED BY <1>3, <3>1 DEF OutOfTurn
  <2>3. /\ SameText(p.row) \/ Untold(Texts)' # {}
        /\ p.row.reacted = row.reacted \/ Untold(Reactions)' # {}
    BY <1>1, <1>3, <2>2, TakenFresh
  <2>4. SameText(p.row)' <=> SameText(p.row) BY <1>1 DEF SameText, Serialized
  <2>5. QED BY <1>1, <1>5, <1>6, <2>3, <2>4 DEF PageFresh, SameText, Serialized
<1>9. disturbed' \in BOOLEAN BY <1>1 DEF ThreadTypeOK, OutOfTurn
<1>10. QED BY <1>1, <1>3, <1>6, <1>7, <1>8, <1>9, TakenKeeps

LEMMA PatchKeeps ==
  ASSUME ThreadInv, NEW p \in net, Receive(p), p.kind \in {"deleted", "reaction"}
  PROVE  ThreadInv'
<1> USE DEF ThreadInv
<1>1. /\ p.kind # "fetch" /\ net' = net \ {p} /\ call' = call /\ row' = row /\ sent' = sent
      /\ seen' = Later(seen, p.row.ver) /\ page' = Patched(p)
      /\ disturbed' = (OutOfTurn(p) \/ disturbed)
  BY DEF Receive
<1>2. /\ p \in Packet /\ PacketShape(p) /\ p.row \in Row /\ p.row.ver \in 0..row.ver
      /\ \A K \in {News, Texts, Reactions} : p.kind \notin K => \A v \in Untold(K) : v \in Untold(K)'
  BY <1>1, PacketTaken
<1>3. /\ p.row.ver > 0 /\ row.ver > 0 /\ row.ver \in Nat /\ sent /\ (p.kind = "deleted" => p.row.deleted)
      /\ p.row.ver \in Nat /\ seen \in Nat
  BY <1>2, OnTheWay DEF PacketShape, ThreadShape
<1>4. /\ page \in Seq(CacheEntry) /\ Len(page) \in Nat /\ Len(page) <= 2 /\ DOMAIN page = 1..Len(page)
      /\ \A i \in DOMAIN page : page[i] \in CacheEntry /\ (page[i].real \/ page[i].nonce)
      /\ Len(page) = 2 => \E i \in DOMAIN page : page[i].real
      /\ ~disturbed => Len(page) <= 1
  BY DEF ThreadTypeOK, ThreadShape, PageShape
<1>5. 0 \in 0..MaxVer BY ThreadAssumption
<1>6. ASSUME NEW i \in DOMAIN page
      PROVE  /\ page'[i] \in CacheEntry /\ page'[i].real = page[i].real /\ page'[i].nonce = page[i].nonce
             /\ page[i].real /\ p.kind = "deleted" =>
                  page'[i].row.text = 0 /\ page'[i].row.deleted /\ page'[i].row.reacted = page[i].row.reacted
             /\ page[i].real /\ p.kind = "reaction" =>
                  /\ page'[i].row.text = page[i].row.text /\ page'[i].row.deleted = page[i].row.deleted
                  /\ page'[i].row.reacted = p.row.reacted
  <2> DEFINE e == page[i]
  <2>1. /\ e \in CacheEntry /\ e.row \in Row /\ e.real \in BOOLEAN /\ e.nonce \in BOOLEAN
    BY <1>4 DEF CacheEntry
  <2>2. page'[i] = IF ~e.real THEN e
                   ELSE IF p.kind = "deleted" THEN [e EXCEPT !.row.text = 0, !.row.deleted = TRUE]
                   ELSE [e EXCEPT !.row.reacted = p.row.reacted]
    BY <1>1 DEF Patched
  <2> HIDE DEF e
  <2>3. CASE ~e.real BY <2>1, <2>2, <2>3 DEF e
  <2>4. CASE e.real /\ p.kind = "deleted"
    <3> DEFINE d == [e EXCEPT !.row.text = 0, !.row.deleted = TRUE]
    <3>1. d.row = [e.row EXCEPT !.text = 0, !.deleted = TRUE] /\ d.real = e.real /\ d.nonce = e.nonce
      BY <2>1 DEF CacheEntry
    <3>2. [e.row EXCEPT !.text = 0, !.deleted = TRUE] \in Row BY <1>5, <2>1 DEF Row
    <3>3. d \in CacheEntry BY <1>5, <2>1 DEF CacheEntry, Row
    <3>4. d.row.text = 0 /\ d.row.deleted /\ d.row.reacted = e.row.reacted BY <2>1, <3>1 DEF Row
    <3>5. page'[i] = d BY <2>2, <2>4
    <3> HIDE DEF d
    <3>6. QED BY <2>4, <3>1, <3>3, <3>4, <3>5 DEF e
  <2>5. CASE e.real /\ p.kind = "reaction"
    <3> DEFINE d == [e EXCEPT !.row.reacted = p.row.reacted]
    <3>1. d.row = [e.row EXCEPT !.reacted = p.row.reacted] /\ d.real = e.real /\ d.nonce = e.nonce
      BY <2>1 DEF CacheEntry
    <3>2. p.row.reacted \in BOOLEAN BY <1>2 DEF Row
    <3>3. d \in CacheEntry BY <2>1, <3>2 DEF CacheEntry, Row
    <3>4. d.row.reacted = p.row.reacted /\ d.row.text = e.row.text /\ d.row.deleted = e.row.deleted
      BY <2>1, <3>1 DEF Row
    <3>5. page'[i] = d BY <2>2, <2>5
    <3> HIDE DEF d
    <3>6. QED BY <2>5, <3>1, <3>3, <3>4, <3>5 DEF e
  <2>6. QED BY <2>3, <2>4, <2>5 DEF e
<1>7. page' \in Seq(CacheEntry) /\ Len(page') = Len(page) /\ DOMAIN page' = DOMAIN page
  <2>1. page' = [i \in DOMAIN page |-> page'[i]] BY <1>1 DEF Patched
  <2>2. QED BY <1>4, <1>6, <2>1, EntriesChanged
<1>8. PageShape' BY <1>1, <1>3, <1>4, <1>6, <1>7 DEF PageShape
<1>9. PageKnows'
  <2>1. SUFFICES ASSUME ~disturbed', ~Late' PROVE PageFresh' BY DEF PageKnows
  <2>2. p.row.ver >= seen
    <3>1. ~OutOfTurn(p) BY <1>1, <2>1
    <3>2. QED BY <1>3, <3>1 DEF OutOfTurn
  <2>3. /\ Serialized(p.row) = p.row /\ ~Late
        /\ SameText(p.row) \/ Untold(Texts)' # {}
        /\ p.row.reacted = row.reacted \/ Untold(Reactions)' # {}
    BY <1>1, <1>3, <2>1, <2>2, TakenFresh
  <2>4. ~disturbed BY <1>1, <2>1
  <2>5. PageFresh BY <1>3, <2>3, <2>4 DEF PageKnows
  <2>6. p.kind \notin News BY DEF News
  <2>7. Untold(News)' # {} \/ \E i \in DOMAIN page' : page'[i].real
    BY <1>2, <1>6, <1>7, <2>5, <2>6 DEF PageFresh
  <2>8. ASSUME NEW i \in DOMAIN page, page[i].real
        PROVE  /\ SameText(page'[i].row) \/ Untold(Texts)' # {}
               /\ page'[i].row.reacted = row.reacted \/ Untold(Reactions)' # {}
    <3>1. /\ SameText(page[i].row) \/ Untold(Texts) # {}
          /\ page[i].row.reacted = row.reacted \/ Untold(Reactions) # {}
      BY <2>5, <2>8 DEF PageFresh
    <3>2. CASE p.kind = "deleted"
      <4>1. p.row.text = 0 /\ p.row.deleted BY <1>2, <1>3, <2>3, <3>2, SerializedRow
      <4>2. p.kind \notin Reactions BY <3>2 DEF Reactions
      <4>3. /\ page'[i].row.text = 0 /\ page'[i].row.deleted /\ page'[i].row.reacted = page[i].row.reacted
        BY <1>6, <2>8, <3>2
      <4>4. page'[i].row.deleted \in BOOLEAN /\ p.row.deleted \in BOOLEAN
        BY <1>2, <1>6 DEF CacheEntry, Row
      <4>5. SameText(p.row) => SameText(page'[i].row) BY <4>1, <4>3, <4>4 DEF SameText
      <4>6. QED BY <1>2, <2>3, <3>1, <4>2, <4>3, <4>5
    <3>3. CASE p.kind = "reaction"
      <4>1. p.kind \notin Texts BY <3>3 DEF Texts
      <4>2. /\ page'[i].row.text = page[i].row.text /\ page'[i].row.deleted = page[i].row.deleted
            /\ page'[i].row.reacted = p.row.reacted
        BY <1>6, <2>8, <3>3
      <4>3. SameText(page[i].row) => SameText(page'[i].row) BY <4>2 DEF SameText
      <4>4. QED BY <1>2, <2>3, <3>1, <4>1, <4>2, <4>3
    <3>4. QED BY <3>2, <3>3
  <2>9. \A i \in DOMAIN page : page'[i].real => page[i].real BY <1>6
  <2>10. QED BY <1>1, <1>7, <2>7, <2>8, <2>9 DEF PageFresh, SameText, Serialized
<1>10. disturbed' \in BOOLEAN BY <1>1 DEF ThreadTypeOK, OutOfTurn
<1>11. QED BY <1>1, <1>3, <1>4, <1>7, <1>8, <1>9, <1>10, TakenKeeps

LEMMA FetchedKeeps ==
  ASSUME ThreadInv, NEW p \in net, Receive(p), p.kind = "history"
  PROVE  ThreadInv'
<1> USE DEF ThreadInv
<1>1. /\ p.kind # "fetch" /\ net' = net \ {p} /\ call' = call /\ row' = row /\ sent' = sent
      /\ seen' = Later(seen, p.row.ver) /\ page' = Fetched(p)
      /\ disturbed' = OutOfTurn(p) /\ disturbed' \in BOOLEAN
  BY DEF Receive, OutOfTurn
<1>2. /\ p \in Packet /\ p.row \in Row /\ p.row.ver \in 0..row.ver /\ row.ver \in Nat
      /\ p.row.ver \in Nat /\ seen \in Nat
  BY <1>1, PacketTaken, OnTheWay
<1>3. Shown(p) \in CacheEntry /\ Shown(p).real /\ Shown(p).row = p.row
  BY <1>2 DEF Shown, CacheEntry, Packet
<1>4. /\ page' \in Seq(CacheEntry) /\ Len(page') <= 1 /\ DOMAIN page' = 1..Len(page')
      /\ \A i \in DOMAIN page' : page'[i] = Shown(p)
      /\ IF p.row.ver = 0 THEN page' = <<>> ELSE Len(page') = 1
  <2>1. CASE p.row.ver = 0
    <3>1. page' = <<>> BY <1>1, <2>1 DEF Fetched
    <3>2. QED BY <2>1, <3>1
  <2>2. CASE p.row.ver # 0
    <3>1. page' = <<Shown(p)>> BY <1>1, <2>2 DEF Fetched
    <3>2. QED BY <1>3, <2>2, <3>1
  <2>3. QED BY <2>1, <2>2
<1>5. p.row.ver # 0 => row.ver > 0 /\ sent BY <1>2 DEF ThreadShape
<1>6. PageShape' BY <1>1, <1>3, <1>4, <1>5 DEF PageShape
<1>7. PageKnows'
  <2>1. SUFFICES ASSUME ~disturbed', row.ver > 0 PROVE PageFresh' BY <1>1 DEF PageKnows
  <2>2. p.row.ver >= seen
    <3>1. ~OutOfTurn(p) BY <1>1, <2>1
    <3>2. QED BY <1>2, <3>1 DEF OutOfTurn
  <2>3. /\ p.row.ver = 0 => row.ver = 0 \/ Untold(News)' # {}
        /\ p.row.ver > 0 => /\ SameText(p.row) \/ Untold(Texts)' # {}
                            /\ p.row.reacted = row.reacted \/ Untold(Reactions)' # {}
    BY <1>1, <2>2, TakenFresh
  <2>4. CASE p.row.ver = 0
    <3>1. Untold(News)' # {} /\ \A i \in DOMAIN page' : FALSE BY <1>2, <1>4, <2>1, <2>3, <2>4
    <3>2. QED BY <3>1 DEF PageFresh
  <2>5. CASE p.row.ver > 0
    <3>1. SameText(p.row)' <=> SameText(p.row) BY <1>1 DEF SameText, Serialized
    <3>2. 1 \in DOMAIN page' BY <1>4, <2>5
    <3>3. QED BY <1>1, <1>3, <1>4, <2>3, <2>5, <3>1, <3>2 DEF PageFresh, SameText, Serialized
  <2>6. QED BY <1>2, <2>4, <2>5
<1>8. ~sent => page' = <<>> BY <1>4, <1>5
<1>9. Len(page') <= 2 BY <1>4
<1>10. QED BY <1>1, <1>4, <1>6, <1>7, <1>8, <1>9, TakenKeeps

LEMMA ThreadStep == ThreadInv /\ [ThreadNext]_threadVars => ThreadInv'
<1> SUFFICES ASSUME ThreadInv, [ThreadNext]_threadVars PROVE ThreadInv' OBVIOUS
<1>1. CASE UNCHANGED threadVars BY <1>1, RefetchKeeps
<1>2. ASSUME NEW c \in MsgCalls, SendMessage(c) PROVE ThreadInv' BY <1>2, SendKeeps
<1>3. ASSUME NEW c \in MsgCalls, CreateMessage(c) \/ UpdateContent(c) \/ SoftDelete(c) \/ WriteReaction(c)
      PROVE  ThreadInv'
  BY <1>3, WritesWrite, WriteKeeps DEF ThreadInv
<1>4. ASSUME NEW c \in MsgCalls, FindMessage(c) PROVE ThreadInv' BY <1>4, FindKeeps
<1>5. ASSUME NEW c \in MsgCalls, ReadMessage(c) PROVE ThreadInv' BY <1>5, ReadKeeps
<1>6. ASSUME NEW c \in MsgCalls, EmitMessage(c) PROVE ThreadInv' BY <1>6, EmitKeeps
<1>7. ASSUME NEW c \in MsgCalls, AbandonMessage(c) PROVE ThreadInv' BY <1>7, AbandonKeeps
<1>8. CASE ReadHistory BY <1>8, HistoryKeeps
<1>9. CASE Refetch BY <1>9, RefetchKeeps
<1>10. ASSUME NEW p \in net, Receive(p) PROVE ThreadInv'
  <2>1. p.kind \in {"new", "edited", "answer", "deleted", "reaction", "history"}
    BY <1>10 DEF ThreadInv, ThreadTypeOK, Packet, Event, Receive
  <2>2. CASE p.kind \in {"new", "edited", "answer"} BY <1>10, <2>2, UpsertKeeps
  <2>3. CASE p.kind \in {"deleted", "reaction"} BY <1>10, <2>3, PatchKeeps
  <2>4. CASE p.kind = "history" BY <1>10, <2>4, FetchedKeeps
  <2>5. QED BY <2>1, <2>2, <2>3, <2>4
<1>11. ASSUME NEW p \in net, MissEvent(p) PROVE ThreadInv' BY <1>11, MissKeeps
<1>12. QED
  BY <1>1, <1>2, <1>3, <1>4, <1>5, <1>6, <1>7, <1>8, <1>9, <1>10, <1>11 DEF ThreadNext

LEMMA RowsEqual ==
  ASSUME NEW a \in Row, NEW b \in Row,
         a.ver = b.ver, a.text = b.text, a.deleted = b.deleted, a.reacted = b.reacted
  PROVE  a = b
BY DEF Row

LEMMA KnownPageSettles == ThreadInv => PageSettles
<1> SUFFICES ASSUME ThreadInv, net = {}, ~disturbed, row.ver > 0, \A c \in MsgCalls : call[c].pc = "idle"
             PROVE  /\ Len(page) = 1 /\ page[1].real
                    /\ [page[1].row EXCEPT !.ver = row.ver] = Serialized(row)
                    /\ row.deleted => page[1].row.text = 0
  BY DEF PageSettles
<1> USE DEF ThreadInv
<1>1. Telling = {} /\ ToldRows = {} BY DEF Telling, ToldRows
<1>2. ASSUME NEW K PROVE Untold(K) = {} BY <1>1 DEF Untold
<1>3. PageFresh BY <1>1 DEF PageKnows, Late
<1>4. /\ page \in Seq(CacheEntry) /\ Len(page) \in Nat /\ Len(page) <= 1 /\ DOMAIN page = 1..Len(page)
      /\ row \in Row
  BY DEF ThreadTypeOK, ThreadShape, PageShape
<1>5. PICK i \in DOMAIN page : page[i].real BY <1>2, <1>3 DEF PageFresh
<1>6. Len(page) = 1 /\ i = 1 /\ 1 \in DOMAIN page /\ page[1].real BY <1>4, <1>5
<1>7. page[1].row \in Row
  <2>1. page[1] \in CacheEntry BY <1>4, <1>6
  <2>2. QED BY <2>1 DEF CacheEntry
<1>8. SameText(page[1].row) /\ page[1].row.reacted = row.reacted BY <1>2, <1>3, <1>6 DEF PageFresh
<1>9. /\ Serialized(row) \in Row /\ Serialized(row).ver = row.ver
      /\ Serialized(row).deleted = row.deleted /\ Serialized(row).reacted = row.reacted
      /\ row.deleted => Serialized(row).text = 0
  BY <1>4, SerializedRow
<1> DEFINE shown == [page[1].row EXCEPT !.ver = row.ver]
<1>10. /\ shown \in Row /\ shown.ver = row.ver /\ shown.text = page[1].row.text
       /\ shown.deleted = page[1].row.deleted /\ shown.reacted = page[1].row.reacted
  BY <1>4, <1>7 DEF Row
<1> HIDE DEF shown
<1>11. shown = Serialized(row) BY <1>8, <1>9, <1>10, RowsEqual DEF SameText
<1>12. row.deleted => page[1].row.text = 0 BY <1>8, <1>9 DEF SameText
<1>13. QED BY <1>6, <1>11, <1>12 DEF shown

(* useSendMessage, upsertMessage and patchMessage with the handlers of     *)
(* MessagesService: for any number of handlers, revisions and packets, and *)
(* in any order of events, answers and fetches, a page that was told all   *)
(* in turn shows the message once, and as the database has it.             *)
THEOREM PageShowsTheMessage == ThreadSpec => []PageSettles
<1>1. ThreadSpec => []ThreadInv BY ThreadStart, ThreadStep, PTL DEF ThreadSpec
<1>2. QED BY <1>1, KnownPageSettles, PTL

(* The state of the message, the handlers and the page has its type: the   *)
(* page never has more than the temporary entry and the message's own.     *)
THEOREM ThreadTyped == ThreadSpec => []ThreadTypeOK
<1>1. ThreadSpec => []ThreadInv BY ThreadStart, ThreadStep, PTL DEF ThreadSpec
<1>2. ThreadInv => ThreadTypeOK BY DEF ThreadInv
<1>3. QED BY <1>1, <1>2, PTL
=============================================================================
