-------------------------- MODULE RecordingProofs --------------------------
(***************************************************************************)
(* Theorems about Recording, for any set of requests and jobs and any      *)
(* number of faults.                                                       *)
(***************************************************************************)
EXTENDS Recording, SequenceTheorems, TLAPS

-----------------------------------------------------------------------------
(* The inductive invariant. *)

(* e has a row, or the meeting is gone with what rows there were. *)
HadRow(e) == status[e] # "none" \/ meeting = "deleted"

(* A request that is about to create a row holds a job that runs, has no   *)
(* row and is no other request's; one that is stopping a recording holds   *)
(* the job of a row, unless the row went with the meeting.                 *)
CallShape ==
  /\ \A c \in Calls :
       /\ call[c].pc = "create" => /\ call[c].egress \in Egresses
                                   /\ egress[call[c].egress] # "free"
                                   /\ status[call[c].egress] = "none"
       /\ call[c].pc \in {"active", "halt", "mark"} => call[c].op = "stop"
       /\ call[c].pc \in {"halt", "mark"} => /\ call[c].egress \in Egresses
                                             /\ HadRow(call[c].egress)
  /\ \A c, d \in Calls :
       call[c].pc = "create" /\ call[d].pc = "create" /\ call[c].egress = call[d].egress => c = d

(* A webhook exists when its job has ended, and is past its look-up when   *)
(* the row is there, or was.  The rows go with the meeting.                *)
HookShape ==
  \A e \in Egresses :
    /\ hook[e] # "none" => egress[e] \in Ended
    /\ hook[e] \in {"found", "written"} => HadRow(e)

RowsGo == meeting = "deleted" => \A e \in Egresses : status[e] = "none"

IInv == TypeOK /\ CallShape /\ HookShape /\ RowsGo /\ RowTruthful /\ NoOrphans

-----------------------------------------------------------------------------
(* Types. *)

(* The names of the program counters. *)
LEMMA Names ==
  /\ "find" \in PCs /\ "check" \in PCs /\ "launch" \in PCs /\ "create" \in PCs
  /\ "active" \in PCs /\ "halt" \in PCs /\ "mark" \in PCs /\ "ok" \in PCs
  /\ "rejected" \in PCs /\ "lost" \in PCs /\ "idle" \in PCs
BY DEF PCs

(* The fields of a request have their types. *)
LEMMA CallFields ==
  ASSUME TypeOK, NEW c \in Calls
  PROVE  /\ call[c] \in CallRecord
         /\ call[c].op \in {"start", "stop"} /\ call[c].host \in BOOLEAN
         /\ call[c].egress \in Egresses \cup {NoEgress} /\ call[c].pc \in PCs
BY DEF TypeOK, CallRecord

(* Moving a request on, with or without a job, keeps the table typed. *)
LEMMA GotoType ==
  ASSUME TypeOK, NEW c \in Calls, NEW pc \in PCs, Goto(c, pc)
  PROVE  call' \in [Calls -> CallRecord]
<1>1. [call[c] EXCEPT !.pc = pc] \in CallRecord
  BY CallFields DEF CallRecord
<1>2. QED BY <1>1 DEF Goto, TypeOK

(* A request that moves on with a job keeps the table typed. *)
LEMMA TakeType ==
  ASSUME TypeOK, NEW c \in Calls, NEW pc \in PCs, NEW e \in Egresses,
         call' = [call EXCEPT ![c] = [@ EXCEPT !.pc = pc, !.egress = e]]
  PROVE  call' \in [Calls -> CallRecord]
<1>1. [call[c] EXCEPT !.pc = pc, !.egress = e] \in CallRecord
  BY CallFields DEF CallRecord
<1>2. QED BY <1>1 DEF TypeOK

(* What a step of Goto leaves behind. *)
LEMMA GotoFields ==
  ASSUME TypeOK, NEW c \in Calls, NEW pc, Goto(c, pc)
  PROVE  /\ call'[c].pc = pc /\ call'[c].op = call[c].op
         /\ call'[c].egress = call[c].egress
         /\ \A d \in Calls \ {c} : call'[d] = call[d]
<1>1. call[c] \in CallRecord BY CallFields
<1>2. call'[c] = [call[c] EXCEPT !.pc = pc] BY DEF Goto, TypeOK
<1>3. QED BY <1>1, <1>2 DEF Goto, TypeOK, CallRecord

(* What a request that took a job looks like. *)
LEMMA TakeFields ==
  ASSUME TypeOK, NEW c \in Calls, NEW pc \in PCs, NEW e \in Egresses,
         call' = [call EXCEPT ![c] = [@ EXCEPT !.pc = pc, !.egress = e]]
  PROVE  /\ call'[c].pc = pc /\ call'[c].op = call[c].op
         /\ call'[c].egress = e
         /\ \A d \in Calls \ {c} : call'[d] = call[d]
<1>1. call[c] \in CallRecord BY CallFields
<1>2. call'[c] = [call[c] EXCEPT !.pc = pc, !.egress = e] BY DEF TypeOK
<1>3. QED BY <1>1, <1>2 DEF TypeOK, CallRecord

(* What a stop that picked a row looks like. *)
LEMMA PickedFields ==
  ASSUME TypeOK, NEW c \in Calls, NEW i \in DOMAIN rows,
         call' = [call EXCEPT ![c] = [@ EXCEPT !.pc = "halt", !.egress = rows[i]]]
  PROVE  /\ rows[i] \in Egresses
         /\ call'[c].pc = "halt" /\ call'[c].op = call[c].op
         /\ call'[c].egress = rows[i]
<1>1. rows[i] \in Egresses BY ElementOfSeq, LenProperties DEF TypeOK
<1>2. call[c] \in CallRecord BY CallFields
<1>3. call'[c] = [call[c] EXCEPT !.pc = "halt", !.egress = rows[i]] BY DEF TypeOK
<1>4. PICK e : e = rows[i] OBVIOUS
<1>5. /\ [call[c] EXCEPT !.pc = "halt", !.egress = e].pc = "halt"
      /\ [call[c] EXCEPT !.pc = "halt", !.egress = e].op = call[c].op
      /\ [call[c] EXCEPT !.pc = "halt", !.egress = e].egress = e
  BY <1>2 DEF CallRecord
<1>6. QED BY <1>1, <1>3, <1>4, <1>5

(* The initial states are typed. *)
LEMMA InitType == Init => TypeOK
<1> SUFFICES ASSUME Init PROVE TypeOK
  OBVIOUS
<1>1. Requests \subseteq CallRecord
  BY DEF Requests, CallRecord, PCs
<1>2. call \in [Calls -> CallRecord]
  BY <1>1 DEF Init
<1>3. rows \in Seq(Egresses) BY DEF Init
<1>4. faults \in 0..MaxFaults BY RecordingAssumption DEF Init, RecordingAssumption
<1>5. QED BY <1>2, <1>3, <1>4 DEF Init, TypeOK

(* The steps of start and stop keep the types. *)
LEMMA CallStepType ==
  ASSUME TypeOK, CallShape, NEW c \in Calls, CallStep(c)
  PROVE  TypeOK'
<1> USE Names, RecordingAssumption DEF TypeOK, RecordingAssumption
<1>1. CASE Begin(c) BY <1>1, GotoType DEF Begin
<1>2. CASE FindMeeting(c)
  <2>1. PICK pc \in PCs : Goto(c, pc) BY <1>2 DEF FindMeeting
  <2>2. call' \in [Calls -> CallRecord] BY <2>1, GotoType
  <2>3. QED BY <1>2, <2>2 DEF FindMeeting
<1>3. CASE CheckRecording(c)
  <2>1. PICK pc \in PCs : Goto(c, pc) BY <1>3 DEF CheckRecording
  <2>2. call' \in [Calls -> CallRecord] BY <2>1, GotoType
  <2>3. QED BY <1>3, <2>2 DEF CheckRecording
<1>4. CASE LaunchEgress(c)
  <2>1. CASE Goto(c, "rejected") /\ UNCHANGED <<egress, faults>>
    <3>1. call' \in [Calls -> CallRecord] BY <2>1, GotoType
    <3>2. QED BY <1>4, <2>1, <3>1 DEF LaunchEgress
  <2>2. ASSUME NEW e \in Egresses, egress' = [egress EXCEPT ![e] = "running"]
        PROVE  egress' \in [Egresses -> {"free", "running", "ending"} \cup Ended]
    BY <2>2
  <2>3. ASSUME NEW e \in Egresses, egress' = [egress EXCEPT ![e] = "running"],
               call' = [call EXCEPT ![c] = [@ EXCEPT !.pc = "create", !.egress = e]],
               UNCHANGED faults
        PROVE  TypeOK'
    <3>1. call' \in [Calls -> CallRecord] BY <2>3, TakeType
    <3>2. QED BY <1>4, <2>2, <2>3, <3>1 DEF LaunchEgress
  <2>4. ASSUME NEW e \in Egresses, egress' = [egress EXCEPT ![e] = "running"],
               faults < MaxFaults, faults' = faults + 1, Goto(c, "rejected")
        PROVE  TypeOK'
    <3>1. call' \in [Calls -> CallRecord] BY <2>4, GotoType
    <3>2. faults' \in 0..MaxFaults BY <2>4
    <3>3. QED BY <1>4, <2>2, <2>4, <3>1, <3>2 DEF LaunchEgress
  <2>5. QED BY <1>4, <2>1, <2>3, <2>4 DEF LaunchEgress
<1>5. CASE CreateRow(c)
  <2>1. call' \in [Calls -> CallRecord] BY <1>5, GotoType DEF CreateRow
  <2>2. call[c].egress \in Egresses BY <1>5 DEF CreateRow, CallShape
  <2>3. rows' \in Seq(Egresses)
    <3>1. Append(rows, call[c].egress) \in Seq(Egresses) BY <2>2, AppendProperties
    <3>2. QED BY <1>5, <3>1 DEF CreateRow
  <2>4. QED BY <1>5, <2>1, <2>3 DEF CreateRow
<1>6. CASE FindActive(c)
  <2>1. call' \in [Calls -> CallRecord]
    <3>1. CASE Goto(c, "rejected") BY <3>1, GotoType
    <3>2. ASSUME NEW i \in DOMAIN rows,
                 call' = [call EXCEPT ![c] = [@ EXCEPT !.pc = "halt", !.egress = rows[i]]]
          PROVE  call' \in [Calls -> CallRecord]
      <4>1. rows[i] \in Egresses BY ElementOfSeq, LenProperties
      <4>2. QED BY <3>2, <4>1, TakeType
    <3>3. QED BY <1>6, <3>1, <3>2 DEF FindActive
  <2>2. QED BY <1>6, <2>1 DEF FindActive
<1>7. CASE StopEgress(c)
  <2>1. call' \in [Calls -> CallRecord] BY <1>7, GotoType DEF StopEgress
  <2>2. QED BY <1>7, <2>1 DEF StopEgress
<1>8. CASE MarkStopping(c)
  <2>1. call' \in [Calls -> CallRecord] BY <1>8, GotoType DEF MarkStopping
  <2>2. QED BY <1>8, <2>1 DEF MarkStopping
<1>9. QED
  BY <1>1, <1>2, <1>3, <1>4, <1>5, <1>6, <1>7, <1>8 DEF CallStep

(* Every step keeps the types. *)
LEMMA TypeStep ==
  ASSUME TypeOK, CallShape, HookShape, [Next]_vars
  PROVE  TypeOK'
<1> USE Names, RecordingAssumption DEF TypeOK, RecordingAssumption
<1>1. ASSUME NEW c \in Calls, CallStep(c) PROVE TypeOK'
  BY <1>1, CallStepType
<1>2. ASSUME NEW e \in Egresses, HookFind(e) PROVE TypeOK'
  BY <1>2 DEF HookFind
<1>3. ASSUME NEW e \in Egresses, HookWrite(e) PROVE TypeOK'
  BY <1>3 DEF HookWrite, Final
<1>4. ASSUME NEW e \in Egresses, HookTell(e) PROVE TypeOK'
  BY <1>4 DEF HookTell
<1>5. ASSUME NEW e \in Egresses, EgressEnds(e) PROVE TypeOK'
  BY <1>5 DEF EgressEnds, Ended
<1>6. ASSUME NEW e \in Egresses, Redeliver(e) PROVE TypeOK'
  BY <1>6 DEF Redeliver
<1>7. CASE MeetingMoves BY <1>7 DEF MeetingMoves
<1>d. CASE DeleteMeeting
  <2>1. rows' = <<>> /\ status' = [e \in Egresses |-> "none"]
        /\ UNCHANGED <<egress, hook, call, told, faults>> /\ meeting' = "deleted"
    BY <1>d DEF DeleteMeeting
  <2>2. <<>> \in Seq(Egresses) OBVIOUS
  <2>3. QED BY <2>1, <2>2
<1>8. CASE AccessFails
  <2>1. faults' \in 0..MaxFaults BY <1>8 DEF AccessFails
  <2>2. call' \in [Calls -> CallRecord]
    BY <1>8, GotoType DEF AccessFails
  <2>3. hook' \in [Egresses -> {"none", "queued", "found", "written", "done"}]
    BY <1>8 DEF AccessFails
  <2>4. QED BY <1>8, <2>1, <2>2, <2>3 DEF AccessFails
<1>9. CASE Crash
  <2>1. faults' \in 0..MaxFaults BY <1>9 DEF Crash
  <2>2. \A c \in Calls : [call[c] EXCEPT !.pc = "lost"] \in CallRecord
    BY CallFields DEF CallRecord
  <2>3. call' \in [Calls -> CallRecord] BY <1>9, <2>2, CallFields DEF Crash
  <2>4. hook' \in [Egresses -> {"none", "queued", "found", "written", "done"}]
    BY <1>9 DEF Crash
  <2>5. QED BY <1>9, <2>1, <2>3, <2>4 DEF Crash
<1>10. CASE UNCHANGED vars BY <1>10 DEF vars
<1>11. QED
  BY <1>1, <1>2, <1>3, <1>4, <1>5, <1>6, <1>7, <1>d, <1>8, <1>9, <1>10 DEF Next, HookStep

-----------------------------------------------------------------------------
(* The shape of the requests and of the webhooks. *)

(* Jobs never become free again; rows vanish with the meeting only, which  *)
(* stays away; a row appears only where a request was about to create it.  *)
LEMMA Monotone ==
  ASSUME TypeOK, CallShape, HookShape, [Next]_vars, NEW e \in Egresses
  PROVE  /\ egress[e] # "free" => egress'[e] # "free"
         /\ meeting = "deleted" => meeting' = "deleted"
         /\ status[e] # "none" => status'[e] # "none" \/ meeting' = "deleted"
         /\ status[e] = "none" /\ status'[e] # "none" =>
              \E c \in Calls : CreateRow(c) /\ call[c].egress = e /\ meeting # "deleted"
<1> USE DEF TypeOK
<1>0. meeting = "deleted" => meeting' = "deleted"
  BY DEF Next, CallStep, Begin, FindMeeting, CheckRecording, LaunchEgress, CreateRow,
         FindActive, StopEgress, MarkStopping, HookStep, HookFind, HookWrite, HookTell,
         EgressEnds, Redeliver, MeetingMoves, DeleteMeeting, AccessFails, Crash, vars
<1>1. ASSUME NEW c \in Calls, CallStep(c)
      PROVE  egress[e] # "free" => egress'[e] # "free"
  BY <1>1 DEF CallStep, Begin, FindMeeting, CheckRecording, LaunchEgress, CreateRow,
              FindActive, StopEgress, MarkStopping
<1>2. ASSUME NEW c \in Calls, CallStep(c)
      PROVE  /\ status[e] # "none" => status'[e] # "none"
             /\ status[e] = "none" /\ status'[e] # "none" =>
                  \E d \in Calls : CreateRow(d) /\ call[d].egress = e /\ meeting # "deleted"
  <2>1. CASE CreateRow(c) BY <2>1 DEF CreateRow
  <2>2. CASE MarkStopping(c) BY <2>2 DEF MarkStopping, CallShape
  <2>3. CASE UNCHANGED status BY <2>3
  <2>4. QED
    BY <1>2, <2>1, <2>2, <2>3
    DEF CallStep, Begin, FindMeeting, CheckRecording, LaunchEgress, FindActive, StopEgress
<1>3. ASSUME NEW f \in Egresses, HookWrite(f)
      PROVE  /\ UNCHANGED egress
             /\ status[e] # "none" => status'[e] # "none"
             /\ status[e] = "none" => status'[e] = "none"
  BY <1>3 DEF HookWrite, HookShape
<1>4. ASSUME NEW f \in Egresses, EgressEnds(f)
      PROVE  UNCHANGED status /\ (egress[e] # "free" => egress'[e] # "free")
  BY <1>4 DEF EgressEnds, Ended
<1>5. ASSUME NEW f \in Egresses, HookFind(f) \/ HookTell(f) \/ Redeliver(f)
      PROVE  UNCHANGED <<egress, status>>
  BY <1>5 DEF HookFind, HookTell, Redeliver
<1>6. CASE MeetingMoves \/ DeleteMeeting \/ AccessFails \/ Crash \/ UNCHANGED vars
  BY <1>6 DEF MeetingMoves, DeleteMeeting, AccessFails, Crash, vars
<1>7. QED
  BY <1>0, <1>1, <1>2, <1>3, <1>4, <1>5, <1>6 DEF Next, HookStep

(* Once the meeting is deleted there are no rows. *)
LEMMA RowsGoStep ==
  ASSUME TypeOK, CallShape, HookShape, RowsGo, [Next]_vars
  PROVE  RowsGo'
<1> SUFFICES ASSUME meeting' = "deleted", NEW e \in Egresses PROVE status'[e] = "none"
  BY DEF RowsGo
<1>1. CASE meeting = "deleted" BY <1>1, Monotone DEF RowsGo
<1>2. CASE meeting # "deleted"
  <2>1. DeleteMeeting
    BY <1>2 DEF Next, CallStep, Begin, FindMeeting, CheckRecording, LaunchEgress, CreateRow,
         FindActive, StopEgress, MarkStopping, HookStep, HookFind, HookWrite, HookTell,
         EgressEnds, Redeliver, MeetingMoves, AccessFails, Crash, vars
  <2>2. QED BY <2>1 DEF DeleteMeeting
<1>3. QED BY <1>1, <1>2

(* A step of one request leaves the others alone. *)
LEMMA OthersKept ==
  ASSUME TypeOK, NEW c \in Calls, CallStep(c), NEW d \in Calls, d # c
  PROVE  call'[d] = call[d]
BY DEF TypeOK, CallStep, Begin, FindMeeting, CheckRecording, LaunchEgress, CreateRow,
       FindActive, StopEgress, MarkStopping, Goto

(* What a request that moved looks like. *)
LEMMA Moved ==
  ASSUME TypeOK, CallShape, HookShape, RowTruthful, NEW c \in Calls, CallStep(c)
  PROVE  /\ call'[c].pc = "create" => /\ LaunchEgress(c)
                                      /\ call'[c].egress \in Egresses
                                      /\ egress[call'[c].egress] = "free"
                                      /\ egress'[call'[c].egress] # "free"
                                      /\ status'[call'[c].egress] = "none"
         /\ call'[c].pc \in {"active", "halt", "mark"} => call'[c].op = "stop"
         /\ call'[c].pc \in {"halt", "mark"} => /\ call'[c].egress \in Egresses
                                              /\ \/ status'[call'[c].egress] # "none"
                                                 \/ meeting' = "deleted"
<1> USE DEF TypeOK, HadRow
<1>1. CASE Begin(c)
  <2>1. call'[c].pc = "find" BY <1>1, GotoFields DEF Begin
  <2>2. QED BY <2>1
<1>2. CASE FindMeeting(c)
  <2>1. PICK pc \in {"rejected", "active", "check"} :
          Goto(c, pc) /\ (pc = "active" => call[c].op = "stop")
    BY <1>2, CallFields DEF FindMeeting
  <2>2. call'[c].pc = pc /\ call'[c].op = call[c].op BY <2>1, GotoFields
  <2>3. QED BY <2>1, <2>2
<1>3. CASE CheckRecording(c)
  <2>1. PICK pc \in {"rejected", "launch"} : Goto(c, pc) BY <1>3 DEF CheckRecording
  <2>2. call'[c].pc = pc BY <2>1, GotoFields
  <2>3. QED BY <2>1, <2>2
<1>4. CASE LaunchEgress(c)
  <2>1. CASE Goto(c, "rejected")
    <3>1. call'[c].pc = "rejected" BY <2>1, GotoFields
    <3>2. QED BY <3>1
  <2>2. ASSUME NEW e \in Egresses, egress[e] = "free",
               egress' = [egress EXCEPT ![e] = "running"],
               call' = [call EXCEPT ![c] = [@ EXCEPT !.pc = "create", !.egress = e]]
        PROVE  call'[c].pc = "create" /\ call'[c].egress = e /\ egress'[e] # "free"
    <3>1. call[c] \in CallRecord BY CallFields
    <3>2. call'[c] = [call[c] EXCEPT !.pc = "create", !.egress = e] BY <2>2
    <3>3. call'[c].pc = "create" /\ call'[c].egress = e BY <3>1, <3>2 DEF CallRecord
    <3>4. egress'[e] = "running" BY <2>2
    <3>5. QED BY <3>3, <3>4
  <2>3. \A e \in Egresses : egress[e] = "free" => status[e] = "none"
    BY DEF RowTruthful
  <2>4. UNCHANGED status BY <1>4 DEF LaunchEgress
  <2>5. QED BY <1>4, <2>1, <2>2, <2>3, <2>4 DEF LaunchEgress
<1>5. CASE CreateRow(c)
  <2>1. call'[c].pc \in {"ok", "rejected"} BY <1>5, GotoFields DEF CreateRow
  <2>2. QED BY <2>1
<1>6. CASE FindActive(c)
  <2>1. CASE Goto(c, "rejected")
    <3>1. call'[c].pc = "rejected" BY <2>1, GotoFields
    <3>2. QED BY <3>1
  <2>2. ASSUME NEW i \in DOMAIN rows, status[rows[i]] \in {"RECORDING", "STOPPING"},
               call' = [call EXCEPT ![c] = [@ EXCEPT !.pc = "halt", !.egress = rows[i]]]
        PROVE  /\ call'[c].pc = "halt" /\ call'[c].op = "stop"
               /\ call'[c].egress \in Egresses /\ status[call'[c].egress] # "none"
    <3>1. rows[i] \in Egresses BY <2>2, PickedFields
    <3>2. call'[c].pc = "halt" /\ call'[c].op = call[c].op /\ call'[c].egress = rows[i]
      BY <2>2, PickedFields
    <3>3. call[c].op = "stop" BY <1>6 DEF FindActive, CallShape
    <3>4. QED BY <2>2, <3>1, <3>2, <3>3
  <2>3. UNCHANGED status BY <1>6 DEF FindActive
  <2>4. QED BY <1>6, <2>1, <2>2, <2>3 DEF FindActive
<1>7. CASE StopEgress(c)
  <2>1. /\ call'[c].pc = "mark" /\ call'[c].op = call[c].op
        /\ call'[c].egress = call[c].egress
    BY <1>7, GotoFields DEF StopEgress
  <2>2. UNCHANGED <<status, meeting>> BY <1>7 DEF StopEgress
  <2>3. QED BY <1>7, <2>1, <2>2 DEF StopEgress, CallShape
<1>8. CASE MarkStopping(c)
  <2>1. call'[c].pc \in {"ok", "rejected"} BY <1>8, GotoFields DEF MarkStopping
  <2>2. QED BY <2>1
<1>9. QED
  BY <1>1, <1>2, <1>3, <1>4, <1>5, <1>6, <1>7, <1>8 DEF CallStep

(* The environment moves requests to their ends only. *)
LEMMA EnvironmentMoves ==
  ASSUME TypeOK, [Next]_vars, ~\E c \in Calls : CallStep(c), NEW d \in Calls
  PROVE  call'[d] = call[d] \/ call'[d].pc \in {"rejected", "lost"}
<1> USE DEF TypeOK
<1>1. CASE \E e \in Egresses : HookStep(e) \/ EgressEnds(e) \/ Redeliver(e)
  BY <1>1 DEF HookStep, HookFind, HookWrite, HookTell, EgressEnds, Redeliver
<1>2. CASE MeetingMoves \/ DeleteMeeting \/ UNCHANGED vars
  BY <1>2 DEF MeetingMoves, DeleteMeeting, vars
<1>3. CASE AccessFails BY <1>3, GotoFields DEF AccessFails
<1>4. CASE Crash
  <2>1. call'[d] = call[d] \/ call'[d] = [call[d] EXCEPT !.pc = "lost"] BY <1>4 DEF Crash
  <2>2. call[d] \in CallRecord BY CallFields
  <2>3. QED BY <2>1, <2>2 DEF CallRecord
<1>5. QED BY <1>1, <1>2, <1>3, <1>4 DEF Next

(* Every step keeps the shape of the requests. *)
LEMMA CallShapeStep ==
  ASSUME TypeOK, CallShape, HookShape, RowTruthful, [Next]_vars
  PROVE  CallShape'
<1> USE DEF HadRow
<1>1. ASSUME NEW d \in Calls, call'[d] = call[d],
             \A c \in Calls : CreateRow(c) => c # d
      PROVE  /\ call'[d].pc = "create" => /\ call'[d].egress \in Egresses
                                          /\ egress'[call'[d].egress] # "free"
                                          /\ status'[call'[d].egress] = "none"
             /\ call'[d].pc \in {"active", "halt", "mark"} => call'[d].op = "stop"
             /\ call'[d].pc \in {"halt", "mark"} => /\ call'[d].egress \in Egresses
                                                  /\ HadRow(call[d].egress)'
  <2>1. ASSUME call[d].pc = "create"
        PROVE  status'[call[d].egress] = "none"
    <3>1. call[d].egress \in Egresses /\ status[call[d].egress] = "none"
      BY <2>1 DEF CallShape
    <3>2. \A c \in Calls : CreateRow(c) => call[c].pc = "create" BY DEF CreateRow
    <3>3. \A c \in Calls : CreateRow(c) => call[c].egress # call[d].egress
      BY <1>1, <2>1, <3>2 DEF CallShape
    <3>4. QED BY <3>1, <3>3, Monotone
  <2>2. QED BY <1>1, <2>1, Monotone DEF CallShape
<1>2. CASE \E c \in Calls : CallStep(c)
  <2>1. PICK c \in Calls : CallStep(c) BY <1>2
  <2>2. \A d \in Calls \ {c} : call'[d] = call[d] BY <2>1, OthersKept
  <2>3. \A d \in Calls \ {c} : ~CreateRow(d) 
    <3>1. SUFFICES ASSUME NEW d \in Calls \ {c}, CreateRow(d) PROVE FALSE
      OBVIOUS
    <3>2. call'[d].pc \in {"ok", "rejected"} BY <3>1, GotoFields DEF CreateRow
    <3>3. call[d].pc = "create" BY <3>1 DEF CreateRow
    <3>4. QED BY <2>2, <3>2, <3>3
  <2>4. \A d \in Calls \ {c} : \A b \in Calls : CreateRow(b) => b # d
    BY <2>3
  <2>5. ASSUME NEW d \in Calls \ {c}, call'[d].pc = "create", call'[c].pc = "create"
        PROVE  call'[d].egress # call'[c].egress
    <3>1. egress[call'[c].egress] = "free" BY <2>1, <2>5, Moved
    <3>2. egress[call[d].egress] # "free" BY <2>2, <2>5 DEF CallShape
    <3>3. QED BY <2>2, <3>1, <3>2
  <2>6. \A d, b \in Calls :
          call'[d].pc = "create" /\ call'[b].pc = "create"
            /\ call'[d].egress = call'[b].egress => d = b
    BY <2>2, <2>5 DEF CallShape
  <2>7. QED BY <1>1, <2>1, <2>2, <2>4, <2>6, Moved DEF CallShape
<1>3. CASE ~\E c \in Calls : CallStep(c)
  <2>1. \A d \in Calls : call'[d] = call[d] \/ call'[d].pc \in {"rejected", "lost"}
    BY <1>3, EnvironmentMoves
  <2>2. \A c \in Calls : ~CreateRow(c) BY <1>3 DEF CallStep
  <2>3. QED BY <1>1, <2>1, <2>2 DEF CallShape
<1>4. QED BY <1>2, <1>3

(* Every step keeps the shape of the webhooks. *)
LEMMA HookShapeStep ==
  ASSUME TypeOK, CallShape, HookShape, [Next]_vars
  PROVE  HookShape'
<1> SUFFICES ASSUME NEW e \in Egresses
             PROVE  /\ hook'[e] # "none" => egress'[e] \in Ended
                    /\ hook'[e] \in {"found", "written"} => HadRow(e)'
  BY DEF HookShape
<1> USE DEF TypeOK, HookShape, HadRow
<1>1. ASSUME NEW c \in Calls, CallStep(c)
      PROVE  UNCHANGED hook /\ (egress[e] \in Ended => egress'[e] \in Ended)
  BY <1>1 DEF CallStep, Begin, FindMeeting, CheckRecording, LaunchEgress, CreateRow,
              FindActive, StopEgress, MarkStopping, Ended
<1>2. ASSUME NEW f \in Egresses, HookStep(f) PROVE UNCHANGED egress
  BY <1>2 DEF HookStep, HookFind, HookWrite, HookTell
<1>3. ASSUME NEW f \in Egresses, HookStep(f)
      PROVE  /\ hook'[e] # "none" => hook[e] # "none"
             /\ hook'[e] \in {"found", "written"} => HadRow(e)
  BY <1>3 DEF HookStep, HookFind, HookWrite, HookTell
<1>4. ASSUME NEW f \in Egresses, EgressEnds(f)
      PROVE  /\ hook'[e] # "none" => egress'[e] \in Ended
             /\ hook'[e] \in {"found", "written"} => HadRow(e)
  BY <1>4 DEF EgressEnds, Ended
<1>5. ASSUME NEW f \in Egresses, Redeliver(f)
      PROVE  /\ hook'[e] # "none" => egress'[e] \in Ended
             /\ hook'[e] \in {"found", "written"} => HadRow(e)
  BY <1>5 DEF Redeliver
<1>6. CASE MeetingMoves \/ DeleteMeeting \/ AccessFails \/ Crash \/ UNCHANGED vars
  <2>1. UNCHANGED egress BY <1>6 DEF MeetingMoves, DeleteMeeting, AccessFails, Crash, vars
  <2>2. hook'[e] = hook[e] \/ (hook'[e] = "done" /\ hook[e] # "none")
    BY <1>6 DEF MeetingMoves, DeleteMeeting, AccessFails, Crash, vars
  <2>3. QED BY <2>1, <2>2, Monotone
<1>7. QED BY <1>1, <1>2, <1>3, <1>4, <1>5, <1>6, Monotone DEF Next

-----------------------------------------------------------------------------
(* What the rows say, and what the jobs leave behind. *)

(* No step settles a row against its job. *)
LEMMA TruthStep ==
  ASSUME IInv, [Next]_vars
  PROVE  RowTruthful'
<1> SUFFICES ASSUME NEW e \in Egresses
             PROVE  /\ status'[e] # "none" => egress'[e] # "free"
                    /\ status'[e] = "COMPLETED" => egress'[e] = "complete"
                    /\ status'[e] = "FAILED" => egress'[e] = "failed"
  BY DEF RowTruthful
<1> USE DEF TypeOK, IInv
<1>1. status'[e] # "none" => egress'[e] # "free"
  BY Monotone DEF CreateRow, CallShape, RowTruthful
<1>2. egress[e] \in Ended => egress'[e] = egress[e]
  BY DEF Next, CallStep, Begin, FindMeeting, CheckRecording, LaunchEgress, CreateRow,
         FindActive, StopEgress, MarkStopping, HookStep, HookFind, HookWrite, HookTell,
         EgressEnds, Redeliver, MeetingMoves, DeleteMeeting, AccessFails, Crash, vars, Ended
<1>3. ASSUME NEW c \in Calls, CallStep(c)
      PROVE  status'[e] \in Final => status'[e] = status[e]
  BY <1>3 DEF CallStep, Begin, FindMeeting, CheckRecording, LaunchEgress, CreateRow,
              FindActive, StopEgress, MarkStopping, Final
<1>4. ASSUME NEW f \in Egresses, HookWrite(f)
      PROVE  /\ status'[e] = "COMPLETED" => egress'[e] = "complete"
             /\ status'[e] = "FAILED" => egress'[e] = "failed"
  BY <1>4 DEF HookWrite, HookShape, Ended, RowTruthful
<1>5. ASSUME NEW f \in Egresses,
             HookFind(f) \/ HookTell(f) \/ EgressEnds(f) \/ Redeliver(f)
      PROVE  UNCHANGED status
  BY <1>5 DEF HookFind, HookTell, EgressEnds, Redeliver
<1>6. CASE MeetingMoves \/ DeleteMeeting \/ AccessFails \/ Crash \/ UNCHANGED vars
  BY <1>1, <1>6 DEF MeetingMoves, DeleteMeeting, AccessFails, Crash, vars, RowTruthful
<1>7. CASE status'[e] \in Final => status'[e] = status[e]
  BY <1>1, <1>2, <1>7 DEF RowTruthful, Final, Ended
<1>8. QED
  BY <1>1, <1>3, <1>4, <1>5, <1>6, <1>7 DEF Next, HookStep

(* No step without a fault leaves a job without a row, but the deletion of *)
(* the meeting.                                                            *)
LEMMA OrphansStep ==
  ASSUME IInv, [Next]_vars
  PROVE  NoOrphans'
<1> SUFFICES ASSUME faults' = 0, meeting' # "deleted", NEW e \in Egresses, egress'[e] # "free", status'[e] = "none"
             PROVE  \E c \in Calls : call'[c].pc = "create" /\ call'[c].egress = e
  BY DEF NoOrphans
<1> USE DEF TypeOK, IInv
<1>1. faults = 0 /\ ~AccessFails /\ ~Crash
  <2>1. faults \in Nat BY RecordingAssumption DEF RecordingAssumption
  <2>2. ~AccessFails /\ ~Crash BY <2>1 DEF AccessFails, Crash
  <2>3. ASSUME NEW c \in Calls, CallStep(c) PROVE UNCHANGED faults \/ faults' = faults + 1
    BY <2>3 DEF CallStep, Begin, FindMeeting, CheckRecording, LaunchEgress, CreateRow,
                FindActive, StopEgress, MarkStopping
  <2>4. ASSUME NEW f \in Egresses, HookStep(f) \/ EgressEnds(f) \/ Redeliver(f)
        PROVE  UNCHANGED faults
    BY <2>4 DEF HookStep, HookFind, HookWrite, HookTell, EgressEnds, Redeliver
  <2>5. ASSUME MeetingMoves \/ DeleteMeeting \/ UNCHANGED vars PROVE UNCHANGED faults
    BY <2>5 DEF MeetingMoves, DeleteMeeting, vars
  <2>6. UNCHANGED faults \/ faults' = faults + 1
    BY <2>2, <2>3, <2>4, <2>5 DEF Next
  <2>7. faults = 0 BY <2>1, <2>6
  <2>8. QED BY <2>2, <2>7
<1>2. status[e] = "none" /\ meeting # "deleted" /\ ~DeleteMeeting
  BY Monotone DEF DeleteMeeting
<1>3. CASE egress[e] = "free"
  <2>1. PICK c \in Calls : LaunchEgress(c) /\ egress' # egress
    BY <1>1, <1>3
    DEF Next, CallStep, Begin, FindMeeting, CheckRecording, CreateRow, FindActive,
        StopEgress, MarkStopping, HookStep, HookFind, HookWrite, HookTell, EgressEnds,
        Redeliver, MeetingMoves, DeleteMeeting, vars
  <2>2. PICK f \in Egresses :
          /\ egress' = [egress EXCEPT ![f] = "running"]
          /\ \/ call' = [call EXCEPT ![c] = [@ EXCEPT !.pc = "create", !.egress = f]]
             \/ faults' = faults + 1
    BY <2>1 DEF LaunchEgress
  <2>3. f = e BY <1>3, <2>2
  <2>4. call' = [call EXCEPT ![c] = [@ EXCEPT !.pc = "create", !.egress = f]]
    BY <1>1, <2>2
  <2>5. call'[c].pc = "create" /\ call'[c].egress = f
    BY <2>4, TakeFields, Names
  <2>6. QED BY <2>3, <2>5
<1>4. CASE egress[e] # "free"
  <2>1. PICK c \in Calls : call[c].pc = "create" /\ call[c].egress = e
    BY <1>1, <1>2, <1>4 DEF NoOrphans
  <2>2. ~CallStep(c)
    <3>1. ~CreateRow(c) BY <1>2, <2>1 DEF CreateRow
    <3>2. QED
      BY <2>1, <3>1 DEF CallStep, Begin, FindMeeting, CheckRecording, LaunchEgress,
                        FindActive, StopEgress, MarkStopping
  <2>3. call'[c] = call[c]
    <3>1. ASSUME NEW d \in Calls, CallStep(d) PROVE call'[c] = call[c]
      BY <2>2, <3>1, OthersKept
    <3>2. ASSUME NEW f \in Egresses, HookStep(f) \/ EgressEnds(f) \/ Redeliver(f)
          PROVE  UNCHANGED call
      BY <3>2 DEF HookStep, HookFind, HookWrite, HookTell, EgressEnds, Redeliver
    <3>3. CASE MeetingMoves \/ UNCHANGED vars BY <3>3 DEF MeetingMoves, vars
    <3>4. QED BY <1>1, <1>2, <3>1, <3>2, <3>3 DEF Next
  <2>4. QED BY <2>1, <2>3
<1>5. QED BY <1>3, <1>4

-----------------------------------------------------------------------------
(* Theorems. *)

(* The inductive invariant holds in every state: the types, the shape of   *)
(* the requests and webhooks, and the two statements about the rows.       *)
THEOREM Invariance == Spec => []IInv
<1>1. Init => IInv
  <2> SUFFICES ASSUME Init PROVE IInv
    OBVIOUS
  <2>1. \A c \in Calls : call[c].pc = "idle"
    <3>1. \A c \in Calls : call[c] \in Requests BY DEF Init
    <3>2. QED BY <3>1 DEF Requests
  <2>2. CallShape BY <2>1 DEF CallShape
  <2>3. HookShape /\ RowsGo /\ RowTruthful /\ NoOrphans
    BY DEF Init, HookShape, RowsGo, RowTruthful, NoOrphans
  <2>4. QED BY <2>2, <2>3, InitType DEF IInv
<1>2. IInv /\ [Next]_vars => IInv'
  BY TypeStep, CallShapeStep, HookShapeStep, RowsGoStep, TruthStep, OrphansStep DEF IInv
<1>3. QED BY <1>1, <1>2, PTL DEF Spec

(* Every variable keeps its type, through every request and webhook.       *)
THEOREM TypeCorrect == Spec => []TypeOK
BY Invariance, PTL DEF IInv

(* A row is settled the way the media server ended its job, and never      *)
(* before it did.                                                          *)
THEOREM RowsAreTruthful == Spec => []RowTruthful
BY Invariance, PTL DEF IInv

(* As long as nothing failed and nobody deleted the meeting, every job the *)
(* media server runs has a row or is about to get one from the start       *)
(* request that launched it.                                               *)
THEOREM NoJobIsOrphaned == Spec => []NoOrphans
BY Invariance, PTL DEF IInv

(* A settled row changes only under a stop request that had picked it, or  *)
(* goes with the meeting.                                                  *)
THEOREM SettledForGood == Spec => FinalForGood
<1>1. IInv /\ [Next]_vars =>
        [\A e \in Egresses :
           status[e] \in Final /\ ~StopPending(e) =>
             status'[e] = status[e] \/ meeting' = "deleted"]_vars
  <2> SUFFICES ASSUME IInv, [Next]_vars, NEW e \in Egresses,
                      status[e] \in Final, ~StopPending(e), ~DeleteMeeting
               PROVE  status'[e] = status[e]
    BY DEF DeleteMeeting
  <2> USE DEF TypeOK, IInv
  <2>1. ASSUME NEW c \in Calls, MarkStopping(c) PROVE status'[e] = status[e]
    <3>1. call[c].egress # e BY <2>1 DEF MarkStopping, StopPending, CallShape
    <3>2. QED BY <2>1, <3>1 DEF MarkStopping
  <2>2. ASSUME NEW c \in Calls, CreateRow(c) PROVE status'[e] = status[e]
    <3>1. call[c].egress # e BY <2>2 DEF CreateRow, CallShape, Final
    <3>2. QED BY <2>2, <3>1 DEF CreateRow
  <2>3. ASSUME NEW f \in Egresses, HookWrite(f) PROVE status'[e] = status[e]
    BY <2>3 DEF HookWrite, HookShape, RowTruthful, Final, Ended
  <2>4. QED
    BY <2>1, <2>2, <2>3
    DEF Next, CallStep, Begin, FindMeeting, CheckRecording, LaunchEgress, FindActive,
        StopEgress, HookStep, HookFind, HookTell, EgressEnds, Redeliver, MeetingMoves,
        AccessFails, Crash, vars
<1>2. QED BY <1>1, Invariance, PTL DEF Spec, FinalForGood

-----------------------------------------------------------------------------
(* Recording implements RecordingLifecycle. *)

Stops(k) == k.op = "stop" /\ k.pc \in {"halt", "mark"}

(* Which rows are picked hangs on the requests that stop them. *)
LEMMA PickedByStops ==
  \A e : e \in Picked <=> e \in Egresses /\ \E c \in Calls : Stops(call[c]) /\ call[c].egress = e
BY DEF Picked, StopPending, Stops

LEMMA PickedNextByStops ==
  \A e : e \in Picked' <=> e \in Egresses /\ \E c \in Calls : Stops(call'[c]) /\ call'[c].egress = e
BY DEF Picked, StopPending, Stops

LEMMA PickedShrinks ==
  ASSUME \A c \in Calls : Stops(call'[c]) => Stops(call[c]) /\ call'[c].egress = call[c].egress
  PROVE  Picked' \in SUBSET Picked
BY PickedByStops, PickedNextByStops

LEMMA PickedStays ==
  ASSUME \A c \in Calls : Stops(call'[c]) => Stops(call[c]) /\ call'[c].egress = call[c].egress,
         \A c \in Calls : Stops(call[c]) => Stops(call'[c]) /\ call'[c].egress = call[c].egress
  PROVE  Picked' = Picked
<1>1. Picked' \subseteq Picked BY PickedShrinks
<1>2. Picked \subseteq Picked' BY PickedByStops, PickedNextByStops
<1>3. QED BY <1>1, <1>2

(* A request that moves on, and is not stopping a recording afterwards.    *)
LEMMA GotoPicks ==
  ASSUME TypeOK, NEW c \in Calls, NEW pc, Goto(c, pc)
  PROVE  /\ pc \notin {"halt", "mark"} \/ Stops(call[c]) => Picked' \in SUBSET Picked
         /\ pc \notin {"halt", "mark"} /\ ~Stops(call[c]) => Picked' = Picked
<1>1. /\ call'[c].pc = pc /\ call'[c].op = call[c].op /\ call'[c].egress = call[c].egress
      /\ \A d \in Calls \ {c} : call'[d] = call[d]
  BY GotoFields
<1>2. ASSUME pc \notin {"halt", "mark"} \/ Stops(call[c]) PROVE Picked' \in SUBSET Picked
  BY <1>1, <1>2, PickedShrinks DEF Stops
<1>3. ASSUME pc \notin {"halt", "mark"}, ~Stops(call[c]) PROVE Picked' = Picked
  BY <1>1, <1>3, PickedStays DEF Stops
<1>4. QED BY <1>2, <1>3

LEMMA InitRecordings == Init => Lifecycle!Init
<1> SUFFICES ASSUME Init PROVE Lifecycle!Init
  OBVIOUS
<1>1. \A c \in Calls : call[c].pc = "idle"
  <2>1. \A c \in Calls : call[c] \in Requests BY DEF Init
  <2>2. QED BY <2>1 DEF Requests
<1>2. Picked = {} BY <1>1 DEF Picked, StopPending
<1>3. Outcome = [e \in Egresses |-> "free"] BY DEF Init, Outcome
<1>4. Row = [e \in Egresses |-> "none"] BY DEF Init, Row
<1>5. QED BY <1>2, <1>3, <1>4 DEF Lifecycle!Init

(* The job of the media server, and nothing else, moves. *)
LEMMA OutcomeMoves ==
  ASSUME TypeOK, NEW e \in Egresses, NEW r, egress' = [egress EXCEPT ![e] = r]
  PROVE  /\ r \in {"running", "ending"} => Outcome' = [Outcome EXCEPT ![e] = "recording"]
         /\ r \in Ended => Outcome' = [Outcome EXCEPT ![e] = r]
BY DEF TypeOK, Outcome, Ended

(* Nothing moves but what is picked. *)
LEMMA Abandoned ==
  ASSUME UNCHANGED <<egress, status>>, Row' = Row, Picked' \in SUBSET Picked
  PROVE  Lifecycle!Next
BY DEF Lifecycle!Next, Lifecycle!Abandon, Outcome

(* The row of one job is written; there is none once the meeting is gone.  *)
LEMMA RowWritten ==
  ASSUME TypeOK, meeting # "deleted", UNCHANGED meeting, NEW e \in Egresses, NEW k,
         status' = [status EXCEPT ![e] = k]
  PROVE  Row = status /\ Row' = [Row EXCEPT ![e] = k]
BY DEF TypeOK, Row

(* The steps of start and stop. *)
LEMMA CallImplements ==
  ASSUME IInv, NEW c \in Calls, CallStep(c)
  PROVE  Lifecycle!Next
<1>0. TypeOK /\ CallShape /\ RowsGo BY DEF IInv
<1>m. UNCHANGED meeting
  BY DEF CallStep, Begin, FindMeeting, CheckRecording, LaunchEgress, CreateRow, FindActive,
         StopEgress, MarkStopping
<1>r. UNCHANGED status => Row' = Row BY <1>m DEF Row
<1>1. ASSUME UNCHANGED <<egress, status>>, Picked' \in SUBSET Picked PROVE Lifecycle!Next
  BY <1>1, <1>r, Abandoned
<1>2. CASE Begin(c) BY <1>0, <1>1, <1>2, GotoPicks DEF Begin
<1>3. CASE FindMeeting(c)
  <2>1. PICK pc \in {"rejected", "active", "check"} : Goto(c, pc) BY <1>3 DEF FindMeeting
  <2>2. QED BY <1>0, <1>1, <1>3, <2>1, GotoPicks DEF FindMeeting
<1>4. CASE CheckRecording(c)
  <2>1. PICK pc \in {"rejected", "launch"} : Goto(c, pc) BY <1>4 DEF CheckRecording
  <2>2. QED BY <1>0, <1>1, <1>4, <2>1, GotoPicks DEF CheckRecording
<1>5. CASE LaunchEgress(c)
  <2>1. ~Stops(call[c]) /\ UNCHANGED status /\ Row' = Row BY <1>5, <1>r DEF LaunchEgress, Stops
  <2>2. CASE Goto(c, "rejected") /\ UNCHANGED egress
    BY <1>0, <1>1, <2>1, <2>2, GotoPicks
  <2>3. ASSUME NEW e \in Egresses, egress[e] = "free", egress' = [egress EXCEPT ![e] = "running"],
               \/ call' = [call EXCEPT ![c] = [@ EXCEPT !.pc = "create", !.egress = e]]
               \/ Goto(c, "rejected")
        PROVE  Lifecycle!Next
    <3>1. Outcome' = [Outcome EXCEPT ![e] = "recording"] BY <1>0, <2>3, OutcomeMoves
    <3>2. Outcome[e] = "free" BY <2>3 DEF Outcome
    <3>3. CASE Goto(c, "rejected")
      <4>1. Picked' = Picked BY <1>0, <2>1, <3>3, GotoPicks
      <4>2. QED BY <2>1, <3>1, <3>2, <4>1 DEF Lifecycle!Next, Lifecycle!Launch
    <3>4. CASE call' = [call EXCEPT ![c] = [@ EXCEPT !.pc = "create", !.egress = e]]
      <4>1. call'[c].pc = "create" /\ \A d \in Calls \ {c} : call'[d] = call[d]
        BY <1>0, <3>4, TakeFields, Names
      <4>2. Picked' = Picked BY <2>1, <4>1, PickedStays DEF Stops
      <4>3. QED BY <2>1, <3>1, <3>2, <4>2 DEF Lifecycle!Next, Lifecycle!Launch
    <3>5. QED BY <2>3, <3>3, <3>4
  <2>4. QED BY <1>5, <2>2, <2>3 DEF LaunchEgress
<1>6. CASE CreateRow(c)
  <2> DEFINE e == call[c].egress
  <2>1. e \in Egresses /\ egress[e] # "free" /\ status[e] = "none" /\ ~Stops(call[c])
    BY <1>0, <1>6 DEF CreateRow, CallShape, Stops
  <2>2. CASE Goto(c, "rejected") /\ UNCHANGED status
    BY <1>0, <1>1, <1>6, <2>1, <2>2, GotoPicks DEF CreateRow
  <2>3. CASE meeting # "deleted" /\ Goto(c, "ok") /\ status' = [status EXCEPT ![e] = "RECORDING"]
    <3>1. UNCHANGED egress BY <1>6 DEF CreateRow
    <3> HIDE DEF e
    <3>2. Picked' = Picked BY <1>0, <2>1, <2>3, GotoPicks
    <3>3. Outcome[e] # "free" /\ Outcome' = Outcome BY <2>1, <3>1 DEF Outcome
    <3>4. Row[e] = "none" /\ Row' = [Row EXCEPT ![e] = "RECORDING"]
      BY <1>0, <1>m, <2>1, <2>3, RowWritten
    <3>5. Lifecycle!Record(e) BY <3>2, <3>3, <3>4 DEF Lifecycle!Record
    <3>6. QED BY <2>1, <3>5 DEF Lifecycle!Next
  <2>4. QED BY <1>6, <2>2, <2>3 DEF CreateRow
<1>7. CASE FindActive(c)
  <2>1. UNCHANGED <<egress, status>> /\ call[c].pc = "active" /\ call[c].op = "stop"
    BY <1>0, <1>7 DEF FindActive, CallShape
  <2>2. CASE Goto(c, "rejected") BY <1>0, <1>1, <2>1, <2>2, GotoPicks
  <2>3. ASSUME NEW i \in DOMAIN rows, status[rows[i]] \in {"RECORDING", "STOPPING"},
               call' = [call EXCEPT ![c] = [@ EXCEPT !.pc = "halt", !.egress = rows[i]]]
        PROVE  Lifecycle!Next
    <3>1. /\ rows[i] \in Egresses
          /\ call'[c].pc = "halt" /\ call'[c].op = "stop" /\ call'[c].egress = rows[i]
      BY <1>0, <2>1, <2>3, PickedFields
    <3>2. \A d \in Calls \ {c} : call'[d] = call[d] BY <1>0, <2>3 DEF TypeOK
    <3>3. PICK e \in Egresses : e = rows[i] BY <3>1
    <3>4. Stops(call'[c]) /\ call'[c].egress = e /\ ~Stops(call[c]) BY <2>1, <3>1, <3>3 DEF Stops
    <3>5. Picked' = Picked \cup {e} BY <3>2, <3>3, <3>4, PickedByStops, PickedNextByStops
    <3>6. Row[e] = status[e] /\ Row' = Row /\ Outcome' = Outcome
      BY <1>0, <1>r, <2>1, <2>3, <3>3 DEF RowsGo, Row, Outcome
    <3>7. Lifecycle!Pick(e) BY <2>3, <3>3, <3>5, <3>6 DEF Lifecycle!Pick
    <3>8. QED BY <3>7 DEF Lifecycle!Next
  <2>4. QED BY <1>7, <2>2, <2>3 DEF FindActive
<1>8. CASE StopEgress(c)
  <2> DEFINE e == call[c].egress
  <2>1. call[c].pc = "halt" /\ Stops(call[c]) /\ Goto(c, "mark") /\ UNCHANGED status /\ e \in Egresses
    BY <1>0, <1>8 DEF StopEgress, CallShape, Stops
  <2>2. Picked' \in SUBSET Picked BY <1>0, <2>1, GotoPicks
  <2>3. UNCHANGED egress \/ (egress[e] = "running" /\ egress' = [egress EXCEPT ![e] = "ending"])
    BY <1>8 DEF StopEgress
  <2> HIDE DEF e
  <2>4. Outcome' = Outcome BY <1>0, <2>1, <2>3 DEF Outcome, TypeOK
  <2>5. QED BY <1>r, <2>1, <2>2, <2>4 DEF Lifecycle!Next, Lifecycle!Abandon
<1>9. CASE MarkStopping(c)
  <2> DEFINE e == call[c].egress
  <2>1. Stops(call[c]) /\ e \in Egresses /\ UNCHANGED egress
    BY <1>0, <1>9 DEF MarkStopping, CallShape, Stops
  <2>2. call[c].egress = e OBVIOUS
  <2>3. CASE Goto(c, "rejected") /\ UNCHANGED status
    BY <1>0, <1>1, <2>1, <2>3, GotoPicks
  <2>4. CASE status[e] # "none" /\ status' = [status EXCEPT ![e] = "STOPPING"] /\ Goto(c, "ok")
    <3> HIDE DEF e
    <3>1. call'[c].pc = "ok" /\ \A d \in Calls \ {c} : call'[d] = call[d]
      BY <1>0, <2>4, GotoFields
    <3>2. e \in Picked BY <2>1, <2>2, PickedByStops
    <3>3. Picked' \subseteq Picked BY <1>0, <2>1, <2>4, GotoPicks
    <3>4. Picked \ {e} \subseteq Picked'
      BY <2>2, <3>1, PickedByStops, PickedNextByStops
    <3>5. Picked' \in {Picked, Picked \ {e}} BY <3>2, <3>3, <3>4
    <3>6. meeting # "deleted" BY <1>0, <2>1, <2>4 DEF RowsGo
    <3>7. Row[e] # "gone" /\ Row' = [Row EXCEPT ![e] = "STOPPING"]
      <4>1. status[e] # "gone" BY <1>0, <2>1 DEF TypeOK, Final
      <4>2. QED BY <1>0, <1>m, <2>1, <2>4, <3>6, <4>1, RowWritten
    <3>8. Outcome' = Outcome BY <2>1 DEF Outcome
    <3>9. Lifecycle!Mark(e) BY <3>2, <3>5, <3>7, <3>8 DEF Lifecycle!Mark
    <3>10. QED BY <2>1, <3>9 DEF Lifecycle!Next
  <2>5. QED BY <1>9, <2>3, <2>4 DEF MarkStopping
<1>10. QED BY <1>2, <1>3, <1>4, <1>5, <1>6, <1>7, <1>8, <1>9 DEF CallStep

LEMMA RecordingsStep == IInv /\ [Next]_vars => [Lifecycle!Next]_(Lifecycle!vars)
<1> SUFFICES ASSUME IInv, [Next]_vars PROVE [Lifecycle!Next]_(Lifecycle!vars)
  OBVIOUS
<1>0. TypeOK /\ HookShape /\ RowsGo BY DEF IInv
<1>2. ASSUME UNCHANGED <<egress, status, call>>, Row' = Row PROVE Lifecycle!Next
  <2>1. Picked' = Picked BY <1>2 DEF Picked, StopPending
  <2>2. QED BY <1>2, <2>1, Abandoned
<1>3. ASSUME NEW c \in Calls, CallStep(c) PROVE Lifecycle!Next BY <1>3, CallImplements
<1>4. ASSUME NEW e \in Egresses, HookWrite(e) PROVE Lifecycle!Next
  <2>1. egress[e] \in Ended /\ UNCHANGED <<egress, call, meeting>>
    BY <1>0, <1>4 DEF HookWrite, HookShape
  <2>2. CASE UNCHANGED status
    <3>1. Row' = Row BY <2>1, <2>2 DEF Row
    <3>2. QED BY <1>2, <2>1, <2>2, <3>1
  <2>3. CASE /\ status[e] # "none"
             /\ status' = [status EXCEPT ![e] = IF egress[e] = "failed" THEN "FAILED" ELSE "COMPLETED"]
    <3> DEFINE verdict == IF egress[e] = "failed" THEN "FAILED" ELSE "COMPLETED"
    <3>1. Outcome[e] = egress[e] /\ Outcome' = Outcome BY <2>1 DEF Outcome, Ended
    <3>2. Picked' = Picked BY <2>1 DEF Picked, StopPending
    <3>3. meeting # "deleted" BY <1>0, <2>3 DEF RowsGo
    <3>4. status[e] \notin {"none", "gone"} BY <1>0, <2>3 DEF TypeOK, Final
    <3>5. status' = [status EXCEPT ![e] = verdict] BY <2>3
    <3>6. Lifecycle!Verdict(Outcome[e]) = verdict BY <3>1 DEF Lifecycle!Verdict
    <3> HIDE DEF verdict
    <3>7. Row[e] \notin {"none", "gone"} /\ Row' = [Row EXCEPT ![e] = verdict]
      BY <1>0, <2>1, <3>3, <3>4, <3>5, RowWritten
    <3>8. Outcome[e] \in {"complete", "failed"} BY <2>1, <3>1 DEF Ended
    <3>9. Lifecycle!Settle(e) BY <3>1, <3>2, <3>6, <3>7, <3>8 DEF Lifecycle!Settle
    <3>10. QED BY <3>9 DEF Lifecycle!Next
  <2>4. QED BY <1>4, <2>2, <2>3 DEF HookWrite
<1>5. ASSUME NEW e \in Egresses, EgressEnds(e) PROVE Lifecycle!Next
  <2>1. PICK r \in Ended : egress' = [egress EXCEPT ![e] = r] BY <1>5 DEF EgressEnds
  <2>2. egress[e] \in {"running", "ending"} /\ UNCHANGED <<status, call>> /\ Row' = Row
    BY <1>5 DEF EgressEnds, Row
  <2>3. Outcome[e] = "recording" BY <2>2 DEF Outcome
  <2>4. Outcome' = [Outcome EXCEPT ![e] = r] BY <1>0, <2>1, OutcomeMoves
  <2>5. Picked' = Picked BY <2>2 DEF Picked, StopPending
  <2>6. Lifecycle!End(e) BY <2>1, <2>2, <2>3, <2>4, <2>5 DEF Lifecycle!End, Ended
  <2>7. QED BY <2>6 DEF Lifecycle!Next
<1>6. ASSUME NEW e \in Egresses, HookFind(e) \/ HookTell(e) \/ Redeliver(e) PROVE Lifecycle!Next
  BY <1>2, <1>6 DEF HookFind, HookTell, Redeliver, Row
<1>7. CASE MeetingMoves BY <1>2, <1>7 DEF MeetingMoves, Row
<1>d. CASE DeleteMeeting
  <2>1. Row' = [e \in Egresses |-> "gone"] /\ UNCHANGED <<egress, call>>
    BY <1>d DEF DeleteMeeting, Row
  <2>2. Picked' = Picked /\ Outcome' = Outcome BY <2>1 DEF Picked, StopPending, Outcome
  <2>3. QED BY <2>1, <2>2 DEF Lifecycle!Next, Lifecycle!Delete
<1>8. CASE AccessFails
  <2>1. UNCHANGED <<egress, status>> /\ Row' = Row BY <1>8 DEF AccessFails, Row
  <2>2. CASE UNCHANGED call BY <1>2, <2>1, <2>2
  <2>3. ASSUME NEW c \in Calls, Goto(c, "rejected") PROVE Lifecycle!Next
    BY <1>0, <2>1, <2>3, GotoPicks, Abandoned
  <2>4. QED BY <1>8, <2>2, <2>3 DEF AccessFails
<1>9. CASE Crash
  <2>1. UNCHANGED <<egress, status>> /\ Row' = Row BY <1>9 DEF Crash, Row
  <2>2. ASSUME NEW c \in Calls
        PROVE  Stops(call'[c]) => Stops(call[c]) /\ call'[c].egress = call[c].egress
    <3>1. call[c] \in CallRecord BY <1>0, CallFields
    <3>2. call'[c] = call[c] \/ call'[c] = [call[c] EXCEPT !.pc = "lost"] BY <1>9 DEF Crash
    <3>3. QED BY <3>1, <3>2 DEF Stops, CallRecord
  <2>3. QED BY <2>1, <2>2, PickedShrinks, Abandoned
<1>10. CASE UNCHANGED vars
  <2>1. Row' = Row BY <1>10 DEF vars, Row
  <2>2. QED BY <1>2, <1>10, <2>1 DEF vars
<1>11. QED
  BY <1>3, <1>4, <1>5, <1>6, <1>7, <1>d, <1>8, <1>9, <1>10 DEF Next, HookStep

(* However starts, stops, webhooks, redeliveries, failures and crashes     *)
(* interleave, over any number of requests and jobs, what the rows show is *)
(* a behaviour of RecordingLifecycle.                                      *)
THEOREM Refinement == Spec => ImplementsRecordingLifecycle
<1>1. QED
  BY InitRecordings, RecordingsStep, Invariance, PTL
     DEF Spec, ImplementsRecordingLifecycle, Lifecycle!Spec
=============================================================================
