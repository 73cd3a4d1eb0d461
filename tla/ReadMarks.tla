------------------------------ MODULE ReadMarks ------------------------------
(***************************************************************************)
(* What one member of a direct conversation sees of it: the conversation   *)
(* is opened, hidden, cleared, removed and read, while messages come that  *)
(* bring it back.                                                          *)
(*                                                                         *)
(* Grain.  One action is one query.  Times are taken where the code takes  *)
(* them: a removal before its write, a message as it is inserted.  The     *)
(* messages are abstracted to the time of the newest by somebody else.     *)
(* Left out: the flags muted, pinned and manualUnread, the peer's own row  *)
(* but for whether it is removed, and what is told to the pages.           *)
(***************************************************************************)
EXTENDS Naturals

CONSTANTS
  ReadCalls,      \* bound: the handlers that run at the same time
  MaxTime         \* bound: the clock

ASSUME ReadMarksAssumption == MaxTime \in Nat

VARIABLES
  made,           \* the conversation is made
  mine,           \* the member's row, 0 for a time that is null
  now,            \* the clock
  newest,         \* the time of the newest message of another, 0 without one
  job,            \* the handlers in flight
  buried          \* history: what RemovedComesBack leaves out

markVars == <<made, mine, now, newest, job, buried>>

Times == 0..MaxTime
JobPCs == {"idle", "create", "restore", "remove", "clear", "mark", "find", "revive", "unhide"}

MarksTypeOK ==
  /\ made \in BOOLEAN
  /\ mine \in [removed: BOOLEAN, hidden: BOOLEAN, cleared: Times, read: Times]
  /\ now \in Times /\ newest \in Times
  /\ job \in [ReadCalls -> [pc: JobPCs, at: Times, own: BOOLEAN]]
  /\ buried \in BOOLEAN

NoJob == [pc |-> "idle", at |-> 0, own |-> FALSE]

MarksInit ==
  /\ made = FALSE
  /\ mine = [removed |-> FALSE, hidden |-> FALSE, cleared |-> 0, read |-> 0]
  /\ now = 0 /\ newest = 0
  /\ job = [j \in ReadCalls |-> NoJob]
  /\ buried = FALSE

LaterDate(s, t) == IF s > t THEN s ELSE t

(* The member's row is written, and the handler goes on to pc. *)
Step(j, row, pc) ==
  /\ mine' = row
  /\ job' = [job EXCEPT ![j] = IF pc = "idle" THEN NoJob ELSE [@ EXCEPT !.pc = pc]]
  /\ UNCHANGED <<made, now, newest, buried>>

Begin(j, r) ==
  /\ job[j].pc = "idle"
  /\ job' = [job EXCEPT ![j] = r]
  /\ UNCHANGED <<made, mine, now, newest, buried>>

-----------------------------------------------------------------------------
(* openDirect. *)

FindDirect(j) ==
  /\ ~made \/ mine.removed \/ mine.hidden
  /\ Begin(j, [NoJob EXCEPT !.pc = IF made THEN "restore" ELSE "create"])

RestoreForViewer(j) ==
  /\ job[j].pc = "restore"
  /\ Step(j, [mine EXCEPT !.removed = FALSE, !.hidden = FALSE], "idle")

(* The key is unique: who comes second finds the conversation of the first. *)
CreateDirect(j) ==
  /\ job[j].pc = "create"
  /\ made' = TRUE
  /\ job' = [job EXCEPT ![j] = NoJob]
  /\ UNCHANGED <<mine, now, newest, buried>>

-----------------------------------------------------------------------------
(* setState, clearForViewer, deleteForViewer, markRead. *)

SetHidden(j) ==
  /\ made /\ job[j].pc = "idle"
  /\ \E h \in BOOLEAN : Step(j, [mine EXCEPT !.hidden = h], "idle")

ChooseTime(j) ==
  made /\ \E pc \in {"clear", "remove"} : Begin(j, [pc |-> pc, at |-> now, own |-> FALSE])

(* No write asks whether a later time is there already. *)
WriteCleared(j, row) ==
  /\ mine' = [row EXCEPT !.cleared = job[j].at, !.read = job[j].at]
  /\ job' = [job EXCEPT ![j] = NoJob]
  /\ buried' = (buried \/ job[j].at < mine.cleared)
  /\ UNCHANGED <<made, now, newest>>

ClearForViewer(j) == job[j].pc = "clear" /\ WriteCleared(j, mine)

RemoveForViewer(j) ==
  /\ job[j].pc = "remove"
  /\ WriteCleared(j, [mine EXCEPT !.removed = TRUE, !.hidden = FALSE])

(* The time of a message, or the time it is. *)
ChooseMark(j) ==
  /\ made
  /\ \E t \in 0..now : Begin(j, [pc |-> "mark", at |-> LaterDate(t, mine.cleared), own |-> FALSE])

MarkRead(j) ==
  /\ job[j].pc = "mark"
  /\ Step(j, [mine EXCEPT !.read = job[j].at], "idle")

-----------------------------------------------------------------------------
(* send(), the member's own message or another's. *)

(* A removal has chosen its time and is not written. *)
Removing == \E j \in ReadCalls : job[j].pc = "remove" /\ job[j].at < now

PostMessage(j) ==
  /\ made /\ job[j].pc = "idle"
  /\ \E own \in BOOLEAN :
       /\ newest' = IF own THEN newest ELSE now
       /\ buried' = (buried \/ (~own /\ Removing))
       /\ job' = [job EXCEPT ![j] = [pc |-> "find", at |-> 0, own |-> own]]
  /\ UNCHANGED <<made, mine, now>>

(* Mutation: only the sender's own row is looked at. *)
FindRemoved_Sender(j) ==
  LET unhide == job[j].own /\ (mine.hidden \/ mine.removed) IN
  /\ job[j].pc = "find"
  /\ Step(j, mine, IF unhide THEN "unhide" ELSE "idle")

(* activityVisibilityChanges reads the rows; that of the peer may be       *)
(* removed as well.  From here on own says that the sender is unhidden.    *)
FindRemoved(j) ==
  LET unhide == job[j].own /\ (mine.hidden \/ mine.removed) IN
  /\ job[j].pc = "find"
  /\ \E peer \in BOOLEAN :
       job' = [job EXCEPT ![j] =
                 CASE mine.removed \/ peer -> [@ EXCEPT !.pc = "revive", !.own = unhide]
                   [] ~mine.removed /\ ~peer /\ unhide -> [@ EXCEPT !.pc = "unhide"]
                   [] OTHER -> NoJob]
  /\ UNCHANGED <<made, mine, now, newest, buried>>

(* updateMany: every row of the conversation that is removed by then. *)
ReviveRemoved(j) ==
  /\ job[j].pc = "revive"
  /\ Step(j, [mine EXCEPT !.removed = FALSE], IF job[j].own THEN "unhide" ELSE "idle")

UnhideSender(j) ==
  /\ job[j].pc = "unhide"
  /\ Step(j, [mine EXCEPT !.removed = FALSE, !.hidden = FALSE], "idle")

(* polls.create() inserts a message and reveals nothing. *)
PostPoll ==
  /\ made
  /\ newest' = now
  /\ buried' = (buried \/ mine.removed \/ Removing)
  /\ UNCHANGED <<made, mine, now, job>>

(* A query throws, or the process dies. *)
AbandonJob(j) ==
  /\ job[j].pc # "idle"
  /\ job' = [job EXCEPT ![j] = NoJob]
  /\ buried' = (buried \/ job[j].pc \in {"find", "revive"})
  /\ UNCHANGED <<made, mine, now, newest>>

Tick ==
  /\ now < MaxTime
  /\ now' = now + 1
  /\ UNCHANGED <<made, mine, newest, job, buried>>

MarksNext ==
  \/ \E j \in ReadCalls :
       \/ FindDirect(j) \/ RestoreForViewer(j) \/ CreateDirect(j)
       \/ SetHidden(j) \/ ChooseTime(j) \/ ClearForViewer(j) \/ RemoveForViewer(j)
       \/ ChooseMark(j) \/ MarkRead(j)
       \/ PostMessage(j) \/ FindRemoved(j) \/ ReviveRemoved(j) \/ UnhideSender(j)
       \/ AbandonJob(j)
  \/ PostPoll \/ Tick

MarksSpec == MarksInit /\ [][MarksNext]_markVars
-----------------------------------------------------------------------------
(* Properties. *)

(* A conversation the member removed is brought back by the next message:  *)
(* unless somebody is about to bring it back, no message of another is     *)
(* newer than the removal.  Left out are a message that came between the   *)
(* time of a removal and its write, one whose sender's call broke off, a   *)
(* clearing that an older one, written later, moved back, and polls, which *)
(* bring nothing back.                                                     *)
RemovedComesBack ==
  mine.removed /\ ~buried /\ newest > mine.cleared =>
    \E j \in ReadCalls : job[j].pc \in {"find", "revive"}
=============================================================================
