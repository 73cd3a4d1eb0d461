----------------------------- MODULE Recording -----------------------------
(***************************************************************************)
(* The recordings of one meeting: the rows in the database, the egress     *)
(* jobs of the media server that write the files, the host's start and     *)
(* stop requests, the egress_ended webhooks that settle the rows, and the  *)
(* administrator who deletes the meeting under all of them.                *)
(*                                                                         *)
(* Grain.  One action is one database access or one call to the media      *)
(* server.  egress_started and egress_updated change nothing and are left  *)
(* out; so are the read-only operations (active, list, stream).            *)
(***************************************************************************)
EXTENDS Naturals, Sequences

CONSTANTS
  Calls,          \* start and stop requests, each made at most once
  Egresses,       \* bound: the egress jobs the media server will hand out
  NoEgress,
  MaxFaults       \* bound: crashes, lost answers and failed accesses

ASSUME RecordingAssumption ==
  /\ NoEgress \notin Egresses
  /\ MaxFaults \in Nat

VARIABLES
  meeting,        \* the status of the meeting, which Meeting.tla moves, or
                  \* "deleted"
  rows,           \* the egress of each Recording row, oldest first
  status,         \* the status column of an egress's row
  egress,         \* the jobs of the media server
  hook,           \* the egress_ended webhook of each job
  call,           \* the requests in flight
  told,           \* the jobs whose end the room was told of
  faults

vars == <<meeting, rows, status, egress, hook, call, told, faults>>

Final == {"COMPLETED", "FAILED"}
Ended == {"complete", "failed"}

PCs == {"idle", "find", "check", "launch", "create", "active", "halt", "mark",
        "ok", "rejected", "lost"}

Requests == [op: {"start", "stop"}, host: BOOLEAN, egress: {NoEgress}, pc: {"idle"}]

CallRecord ==
  [op: {"start", "stop"}, host: BOOLEAN, egress: Egresses \cup {NoEgress}, pc: PCs]

TypeOK ==
  /\ meeting \in {"WAITING", "ACTIVE", "ENDED", "deleted"}
  /\ rows \in Seq(Egresses)
  /\ status \in [Egresses -> {"none", "RECORDING", "STOPPING"} \cup Final]
  /\ egress \in [Egresses -> {"free", "running", "ending"} \cup Ended]
  /\ hook \in [Egresses -> {"none", "queued", "found", "written", "done"}]
  /\ call \in [Calls -> CallRecord]
  /\ told \subseteq Egresses
  /\ faults \in 0..MaxFaults

Init ==
  /\ meeting \in {"WAITING", "ACTIVE", "ENDED"}
  /\ rows = <<>>
  /\ status = [e \in Egresses |-> "none"]
  /\ egress = [e \in Egresses |-> "free"]
  /\ hook = [e \in Egresses |-> "none"]
  /\ call \in [Calls -> Requests]
  /\ told = {}
  /\ faults = 0

-----------------------------------------------------------------------------
(* start and stop. *)

Goto(c, pc) == call' = [call EXCEPT ![c].pc = pc]

Begin(c) ==
  /\ call[c].pc = "idle"
  /\ Goto(c, "find")
  /\ UNCHANGED <<meeting, rows, status, egress, hook, told, faults>>

(* findRawByCode: the host may start while the meeting is active, and stop *)
(* at any time.                                                            *)
FindMeeting(c) ==
  /\ call[c].pc = "find"
  /\ Goto(c, IF ~call[c].host \/ meeting = "deleted" THEN "rejected"
             ELSE IF call[c].op = "stop" THEN "active"
             ELSE IF meeting = "ACTIVE" THEN "check" ELSE "rejected")
  /\ UNCHANGED <<meeting, rows, status, egress, hook, told, faults>>

(* findRecordingForMeeting: a row that is STOPPING does not count. *)
CheckRecording(c) ==
  /\ call[c].pc = "check"
  /\ Goto(c, IF \E e \in Egresses : status[e] = "RECORDING" THEN "rejected" ELSE "launch")
  /\ UNCHANGED <<meeting, rows, status, egress, hook, told, faults>>

(* startRoomCompositeEgress: a job starts and the call learns its id, or   *)
(* it fails; when the answer is lost the job runs all the same.            *)
LaunchEgress(c) ==
  /\ call[c].pc = "launch"
  /\ \/ Goto(c, "rejected") /\ UNCHANGED <<egress, faults>>
     \/ \E e \in Egresses :
          /\ egress[e] = "free"
          /\ egress' = [egress EXCEPT ![e] = "running"]
          /\ \/ /\ call' = [call EXCEPT ![c] = [@ EXCEPT !.pc = "create", !.egress = e]]
                /\ UNCHANGED faults
             \/ /\ faults < MaxFaults /\ faults' = faults + 1
                /\ Goto(c, "rejected")
  /\ UNCHANGED <<meeting, rows, status, hook, told>>

(* Mutation: the check is repeated before the row is created. *)
CreateRow_Recheck(c) ==
  /\ call[c].pc = "create"
  /\ IF meeting = "deleted" \/ \E e \in Egresses : status[e] = "RECORDING"
       THEN Goto(c, "rejected") /\ UNCHANGED <<rows, status>>
       ELSE /\ rows' = Append(rows, call[c].egress)
            /\ status' = [status EXCEPT ![call[c].egress] = "RECORDING"]
            /\ Goto(c, "ok")
  /\ UNCHANGED <<meeting, egress, hook, told, faults>>

(* There is no row without its meeting.  The job goes on. *)
CreateRow(c) ==
  /\ call[c].pc = "create"
  /\ \/ /\ meeting = "deleted"
        /\ Goto(c, "rejected")
        /\ UNCHANGED <<rows, status>>
     \/ /\ meeting # "deleted"
        /\ rows' = Append(rows, call[c].egress)
        /\ status' = [status EXCEPT ![call[c].egress] = "RECORDING"]
        /\ Goto(c, "ok")
  /\ UNCHANGED <<meeting, egress, hook, told, faults>>

(* Mutation: the newest row is stopped, whatever its status. *)
FindActive_Newest(c) ==
  /\ call[c].pc = "active"
  /\ \/ rows = <<>> /\ Goto(c, "rejected")
     \/ /\ rows # <<>>
        /\ call' = [call EXCEPT ![c] = [@ EXCEPT !.pc = "halt", !.egress = rows[Len(rows)]]]
  /\ UNCHANGED <<meeting, rows, status, egress, hook, told, faults>>

(* findActiveForMeeting: the newest row that is RECORDING or STOPPING. *)
FindActive(c) ==
  LET active == {i \in DOMAIN rows : status[rows[i]] \in {"RECORDING", "STOPPING"}} IN
  /\ call[c].pc = "active"
  /\ \/ active = {} /\ Goto(c, "rejected")
     \/ \E i \in active :
          /\ \A j \in active : j <= i
          /\ call' = [call EXCEPT ![c] = [@ EXCEPT !.pc = "halt", !.egress = rows[i]]]
  /\ UNCHANGED <<meeting, rows, status, egress, hook, told, faults>>

(* stopEgress; an error is logged and the stop goes on. *)
StopEgress(c) ==
  LET e == call[c].egress IN
  /\ call[c].pc = "halt"
  /\ \/ egress[e] = "running" /\ egress' = [egress EXCEPT ![e] = "ending"]
     \/ UNCHANGED egress
  /\ Goto(c, "mark")
  /\ UNCHANGED <<meeting, rows, status, hook, told, faults>>

(* Mutation: every row of the meeting is marked, not the one found. *)
MarkStopping_All(c) ==
  /\ call[c].pc = "mark"
  /\ status' = [e \in Egresses |-> IF status[e] = "none" THEN "none" ELSE "STOPPING"]
  /\ Goto(c, "ok")
  /\ UNCHANGED <<meeting, rows, egress, hook, told, faults>>

(* The update of a row that is gone throws. *)
MarkStopping(c) ==
  /\ call[c].pc = "mark"
  /\ \/ /\ status[call[c].egress] = "none"
        /\ Goto(c, "rejected")
        /\ UNCHANGED status
     \/ /\ status[call[c].egress] # "none"
        /\ status' = [status EXCEPT ![call[c].egress] = "STOPPING"]
        /\ Goto(c, "ok")
  /\ UNCHANGED <<meeting, rows, egress, hook, told, faults>>

-----------------------------------------------------------------------------
(* handleEgressEvent for egress_ended. *)

(* Mutation: only a row that is still RECORDING is looked for. *)
HookFind_OnlyRecording(e) ==
  /\ hook[e] = "queued"
  /\ hook' = [hook EXCEPT ![e] = IF status[e] # "RECORDING" THEN "done" ELSE "found"]
  /\ UNCHANGED <<meeting, rows, status, egress, call, told, faults>>

(* findByEgressId; the event of an unknown job is acknowledged and dropped. *)
HookFind(e) ==
  /\ hook[e] = "queued"
  /\ hook' = [hook EXCEPT ![e] = IF status[e] = "none" THEN "done" ELSE "found"]
  /\ UNCHANGED <<meeting, rows, status, egress, call, told, faults>>

(* Mutation: every end is taken for a success. *)
HookWrite_Completed(e) ==
  /\ hook[e] = "found"
  /\ status' = [status EXCEPT ![e] = IF @ = "none" THEN @ ELSE "COMPLETED"]
  /\ hook' = [hook EXCEPT ![e] = "written"]
  /\ UNCHANGED <<meeting, rows, egress, call, told, faults>>

(* markFailed or markCompleted, which throw when the row is gone; a job    *)
(* that was cut off at the limit of its length counts as complete.         *)
HookWrite(e) ==
  /\ hook[e] = "found"
  /\ \/ /\ status[e] = "none"
        /\ hook' = [hook EXCEPT ![e] = "done"]
        /\ UNCHANGED status
     \/ /\ status[e] # "none"
        /\ status' = [status EXCEPT ![e] = IF egress[e] = "failed" THEN "FAILED" ELSE "COMPLETED"]
        /\ hook' = [hook EXCEPT ![e] = "written"]
  /\ UNCHANGED <<meeting, rows, egress, call, told, faults>>

(* Mutation: the room is told of completed recordings only. *)
HookTell_Completed(e) ==
  /\ hook[e] = "written"
  /\ told' = IF egress[e] = "complete" THEN told \cup {e} ELSE told
  /\ hook' = [hook EXCEPT ![e] = "done"]
  /\ UNCHANGED <<meeting, rows, status, egress, call, faults>>

(* emitStopped to the meeting's room, unless the meeting is gone. *)
HookTell(e) ==
  /\ hook[e] = "written"
  /\ told' = IF meeting = "deleted" THEN told ELSE told \cup {e}
  /\ hook' = [hook EXCEPT ![e] = "done"]
  /\ UNCHANGED <<meeting, rows, status, egress, call, faults>>

-----------------------------------------------------------------------------
(* The media server and the environment. *)

EgressEnds(e) ==
  /\ egress[e] \in {"running", "ending"}
  /\ \E r \in Ended : egress' = [egress EXCEPT ![e] = r]
  /\ hook' = [hook EXCEPT ![e] = "queued"]
  /\ UNCHANGED <<meeting, rows, status, call, told, faults>>

(* The media server delivers an event again. *)
Redeliver(e) ==
  /\ hook[e] = "done"
  /\ hook' = [hook EXCEPT ![e] = "queued"]
  /\ UNCHANGED <<meeting, rows, status, egress, call, told, faults>>

MeetingMoves ==
  /\ meeting # "deleted"
  /\ meeting' \in {"ACTIVE", "ENDED"} \ {meeting}
  /\ UNCHANGED <<rows, status, egress, hook, call, told, faults>>

(* An administrator deletes the meeting, or its host's account, and the    *)
(* rows go with it.  Its room is closed, if it can be: that ends a job or  *)
(* does not.                                                               *)
DeleteMeeting ==
  /\ meeting # "deleted" /\ meeting' = "deleted"
  /\ rows' = <<>>
  /\ status' = [e \in Egresses |-> "none"]
  /\ UNCHANGED <<egress, hook, call, told, faults>>

(* A database access of a request throws; one of a webhook throws or the   *)
(* webhook is lost on its way.                                             *)
AccessFails ==
  /\ faults < MaxFaults /\ faults' = faults + 1
  /\ \/ /\ \E c \in Calls :
             call[c].pc \in {"find", "check", "create", "active", "mark"} /\ Goto(c, "rejected")
        /\ UNCHANGED hook
     \/ /\ \E e \in Egresses :
             hook[e] \in {"queued", "found", "written"} /\ hook' = [hook EXCEPT ![e] = "done"]
        /\ UNCHANGED call
  /\ UNCHANGED <<meeting, rows, status, egress, told>>

(* The process dies with the requests and webhooks it is serving. *)
Crash ==
  /\ faults < MaxFaults /\ faults' = faults + 1
  /\ call' = [c \in Calls |->
                IF call[c].pc \in {"idle", "ok", "rejected", "lost"} THEN call[c]
                ELSE [call[c] EXCEPT !.pc = "lost"]]
  /\ hook' = [e \in Egresses |-> IF hook[e] \in {"found", "written"} THEN "done" ELSE hook[e]]
  /\ UNCHANGED <<meeting, rows, status, egress, told>>

CallStep(c) ==
  \/ Begin(c) \/ FindMeeting(c)
  \/ CheckRecording(c) \/ LaunchEgress(c) \/ CreateRow(c)
  \/ FindActive(c) \/ StopEgress(c) \/ MarkStopping(c)

HookStep(e) == HookFind(e) \/ HookWrite(e) \/ HookTell(e)

Next ==
  \/ \E c \in Calls : CallStep(c)
  \/ \E e \in Egresses : HookStep(e) \/ EgressEnds(e) \/ Redeliver(e)
  \/ MeetingMoves \/ DeleteMeeting
  \/ AccessFails
  \/ Crash

Spec == Init /\ [][Next]_vars

(* A webhook that has arrived is served.  Nothing else is owed: a job may  *)
(* record for ever, and a request may never be made.                       *)
Fairness == \A e \in Egresses : WF_vars(HookStep(e))

FairSpec == Spec /\ Fairness
-----------------------------------------------------------------------------
(* Properties. *)

(* A row's verdict is the media server's: no interleaving of stops, late   *)
(* and repeated webhooks and crashes settles a row before its job ended or *)
(* against the way it ended.                                               *)
RowTruthful ==
  \A e \in Egresses :
    /\ status[e] # "none" => egress[e] # "free"
    /\ status[e] = "COMPLETED" => egress[e] = "complete"
    /\ status[e] = "FAILED" => egress[e] = "failed"

(* Without faults no job of the media server records behind the database's *)
(* back, as long as the meeting is not deleted: it has its row, or a start *)
(* request is about to create it.                                          *)
NoOrphans ==
  faults = 0 /\ meeting # "deleted" =>
    \A e \in Egresses : egress[e] # "free" =>
      \/ status[e] # "none"
      \/ \E c \in Calls : call[c].pc = "create" /\ call[c].egress = e

(* The stop requests that have picked this row and have not marked it. *)
StopPending(e) ==
  \E c \in Calls : call[c].op = "stop" /\ call[c].egress = e /\ call[c].pc \in {"halt", "mark"}

(* A settled row stays as it is until the meeting is deleted, but for a    *)
(* stop that picked it before.                                             *)
FinalForGood ==
  [][\A e \in Egresses :
       status[e] \in Final /\ ~StopPending(e) =>
         status'[e] = status[e] \/ meeting' = "deleted"]_vars

(* What is left of a job when it does not matter who ends it. *)
Outcome ==
  [e \in Egresses |-> IF egress[e] \in {"running", "ending"} THEN "recording" ELSE egress[e]]

(* The row of a job, whose story is over once the meeting is deleted. *)
Row == [e \in Egresses |-> IF meeting = "deleted" THEN "gone" ELSE status[e]]

Picked == {e \in Egresses : StopPending(e)}

Lifecycle == INSTANCE RecordingLifecycle WITH
  Jobs <- Egresses, job <- Outcome, status <- Row, picked <- Picked

(* However starts, stops, webhooks, redeliveries and crashes interleave,   *)
(* the row of a job is written once, never goes back to RECORDING, and is  *)
(* settled as the job ended; only a stop that had picked it before undoes  *)
(* that, and only the deletion of the meeting ends it.                     *)
ImplementsRecordingLifecycle == Lifecycle!Spec

(* What the error message of start() says, and the code does not keep: one *)
(* recording is in progress at a time.                                     *)
OneRecording ==
  \A e, f \in Egresses : status[e] = "RECORDING" /\ status[f] = "RECORDING" => e = f

(* Under FairSpec a webhook that arrives when the row is there settles it, *)
(* whatever the row's status is by then, unless something fails or the     *)
(* meeting is deleted first.                                               *)
HookSettles ==
  \A e \in Egresses :
    (hook[e] = "queued" /\ status[e] # "none")
      ~> (status[e] \in Final \/ faults > 0 \/ meeting = "deleted")

(* Under FairSpec the room is told of every end, failures of the job       *)
(* included, unless something fails on the way or the meeting is deleted.  *)
EndIsTold ==
  \A e \in Egresses :
    (status[e] \in Final) ~> (e \in told \/ faults > 0 \/ meeting = "deleted")
=============================================================================
