---------------------------- MODULE MeetingProofs ----------------------------
(***************************************************************************)
(* Theorems about Meeting, for every set of processes, calls and users,    *)
(* every limit, clock bound and fault budget.                              *)
(***************************************************************************)
EXTENDS Meeting, TLAPS

-----------------------------------------------------------------------------
(* Types. *)

(* The initial states are typed. *)
LEMMA InitType == Init => TypeOK
<1> SUFFICES ASSUME Init PROVE TypeOK
  OBVIOUS
<1> USE MeetingAssumption DEF MeetingAssumption
<1>1. PICK f \in [Calls -> NewCalls] :
        call = [p \in Procs |-> IF p \in Servers THEN NewCall("timer", Host, p) ELSE f[p]]
  BY DEF Init
<1>2. NewCalls \subseteq CallRecord
  BY DEF NewCalls, NewCall, CallRecord, PCs, Access, Answers, AllOps, ConsoleOps, Statuses, NoTime, NoLimit
<1>3. \A s \in Servers : NewCall("timer", Host, s) \in CallRecord
  BY DEF NewCall, CallRecord, PCs, Access, Answers, AllOps, ConsoleOps, Statuses, NoTime, NoLimit
<1>4. call \in [Procs -> CallRecord]
  BY <1>1, <1>2, <1>3 DEF Procs
<1>5. QED
  BY <1>4 DEF Init, TypeOK, Statuses, NoTime

(* The names the handlers give their program counters and snapshots. *)
LEMMA Names ==
  /\ "find" \in PCs /\ "found" \in PCs /\ "refind" \in PCs /\ "limit" \in PCs
  /\ "limited" \in PCs /\ "upsert" \in PCs /\ "start" \in PCs /\ "leave" \in PCs
  /\ "end_find" \in PCs /\ "end_found" \in PCs /\ "end_write" \in PCs
  /\ "announce" \in PCs /\ "idle" \in PCs /\ "ok" \in PCs /\ "rejected" \in PCs
  /\ "lost" \in PCs /\ "ended" \in PCs /\ "force_write" \in PCs
  /\ "bulk_write" \in PCs /\ "find_participant" \in PCs
  /\ "WAITING" \in Statuses /\ "ACTIVE" \in Statuses /\ "ENDED" \in Statuses
BY DEF PCs, Access, Answers, Statuses

(* What a step of the console does, whichever it is: it moves its own call *)
(* and may end the meeting; it starts nothing and touches no timer.        *)
LEMMA ConsoleMoves ==
  ASSUME NEW c, ConsoleStep(c)
  PROVE  /\ \E pc \in {"ok", "ended", "rejected", "leave", "force_write", "find_participant"} :
              Goto(c, pc)
         /\ UNCHANGED <<startedAt, participants, limit, now, timers, emitted, faults>>
         /\ call[c].pc \in {"found", "force_write", "bulk_write", "find_participant"}
         /\ \/ UNCHANGED <<status, endedAt>>
            \/ /\ status' = "ENDED" /\ endedAt' = now
               /\ call[c].pc \in {"force_write", "bulk_write"} /\ Goto(c, "ended")
<1>1. CASE ForceFound(c) BY <1>1 DEF ForceFound, row
<1>2. CASE ForceEnd(c) BY <1>2 DEF ForceEnd
<1>3. CASE BulkEnd(c) BY <1>3 DEF BulkEnd
<1>4. CASE KickFound(c) BY <1>4 DEF KickFound, row
<1>5. CASE FindParticipant(c) BY <1>5 DEF FindParticipant, row
<1>6. QED BY <1>1, <1>2, <1>3, <1>4, <1>5 DEF ConsoleStep

(* A call's record read from the call table has the record's type. *)
LEMMA CallFields ==
  ASSUME TypeOK, NEW p \in Procs
  PROVE  /\ call[p] \in CallRecord
         /\ call[p].pc \in PCs /\ call[p].op \in AllOps \cup {"timer"}
         /\ call[p].actor \in Users /\ call[p].at \in Servers
         /\ call[p].seen \in Statuses /\ call[p].seenStart \in Int
         /\ call[p].max \in Nat /\ call[p].after \in {"upsert", "refind", "ok"}
BY DEF TypeOK, CallRecord

(* A record with another program counter and snapshot is a call's record. *)
LEMMA SnapshotTyped ==
  ASSUME NEW r \in CallRecord, NEW pc \in PCs, NEW s \in Statuses, NEW t \in Int, NEW m \in Nat
  PROVE  /\ [r EXCEPT !.pc = pc, !.seen = s] \in CallRecord
         /\ [r EXCEPT !.pc = pc, !.seen = s, !.seenStart = t] \in CallRecord
         /\ [r EXCEPT !.pc = pc, !.max = m] \in CallRecord
<1>1. [r EXCEPT !.pc = pc, !.seen = s] \in CallRecord BY DEF CallRecord
<1>2. [r EXCEPT !.pc = pc, !.seen = s, !.seenStart = t] \in CallRecord BY DEF CallRecord
<1>3. [r EXCEPT !.pc = pc, !.max = m] \in CallRecord BY DEF CallRecord
<1>4. QED BY <1>1, <1>2, <1>3

(* One call's record is replaced. *)
LEMMA CallTyped ==
  ASSUME TypeOK, NEW p \in Procs, NEW k \in CallRecord, call' = [call EXCEPT ![p] = k]
  PROVE  call' \in [Procs -> CallRecord]
BY DEF TypeOK

(* Moving one call to another program counter keeps the table typed. *)
LEMMA GotoType ==
  ASSUME TypeOK, NEW p \in Procs, NEW pc \in PCs, Goto(p, pc)
  PROVE  call' \in [Procs -> CallRecord]
BY CallFields DEF TypeOK, Goto, CallRecord

(* enforceMeetingDurationLimit keeps the table and the timers typed. *)
LEMMA EnforceLimitType ==
  ASSUME TypeOK, NEW p \in Procs, NEW next \in {"upsert", "refind", "ok"},
         EnforceLimit(p, next)
  PROVE  /\ call' \in [Procs -> CallRecord]
         /\ timers' \in [Servers -> Nat \cup {NoTime}]
<1> USE Names DEF TypeOK
<1>1. next \in PCs OBVIOUS
<1>2. CASE Goto(p, next) /\ timers' = [timers EXCEPT ![call[p].at] = NoTime]
  BY <1>1, <1>2, GotoType
<1>3. CASE Goto(p, next) /\ UNCHANGED timers
  BY <1>1, <1>3, GotoType
<1>4. CASE /\ call' = [call EXCEPT ![p] = [@ EXCEPT !.pc = "limit", !.after = next]]
           /\ UNCHANGED timers
  BY <1>4, CallFields DEF CallRecord
<1>5. QED BY <1>2, <1>3, <1>4 DEF EnforceLimit

(* Every step of a join, guest session, token, leave or webhook keeps the  *)
(* types.                                                                  *)
LEMMA CallStepType ==
  ASSUME TypeOK, NEW c \in Calls, CallStep(c)
  PROVE  TypeOK'
<1> USE MeetingAssumption, Names DEF TypeOK
<1>0. c \in Procs /\ startedAt \in Int /\ now \in Nat /\ MaxTime \in Nat
  BY DEF Procs, NoTime
<1>1. CASE Begin(c) BY <1>0, <1>1, GotoType DEF Begin, row
<1>2. CASE Find(c)
  <2>1. call' \in [Procs -> CallRecord]
    <3> DEFINE k == [call[c] EXCEPT !.pc = "found", !.seen = status, !.seenStart = startedAt]
    <3>1. k \in CallRecord BY <1>0, CallFields, SnapshotTyped
    <3>2. call' = [call EXCEPT ![c] = k] BY <1>2 DEF Find
    <3> HIDE DEF k
    <3>3. QED BY <1>0, <3>1, <3>2, CallTyped
  <2>2. QED BY <1>2, <2>1 DEF Find, row
<1>3. CASE JoinFound(c)
  <2>1. /\ call' \in [Procs -> CallRecord]
        /\ timers' \in [Servers -> Nat \cup {NoTime}]
    BY <1>0, <1>3, GotoType, EnforceLimitType DEF JoinFound
  <2>2. QED BY <1>3, <2>1 DEF JoinFound, row
<1>4. CASE GuestFound(c)
  <2>1. /\ call' \in [Procs -> CallRecord]
        /\ timers' \in [Servers -> Nat \cup {NoTime}]
    BY <1>0, <1>4, GotoType, EnforceLimitType DEF GuestFound
  <2>2. QED BY <1>4, <2>1 DEF GuestFound, row
<1>5. CASE TokenFound(c)
  <2>1. /\ call' \in [Procs -> CallRecord]
        /\ timers' \in [Servers -> Nat \cup {NoTime}]
    BY <1>0, <1>5, EnforceLimitType DEF TokenFound
  <2>2. QED BY <1>5, <2>1 DEF TokenFound, row
<1>6. CASE LeaveFound(c) BY <1>0, <1>6, GotoType DEF LeaveFound, row
<1>7. CASE WebhookFound(c) BY <1>0, <1>7, GotoType DEF WebhookFound, row
<1>8. CASE TokenRefind(c) BY <1>0, <1>8, GotoType DEF TokenRefind, row
<1>9. CASE ReadLimit(c)
  <2>1. call' \in [Procs -> CallRecord]
    <3>1. limit \in Nat BY DEF MeetingAssumption
    <3> DEFINE k == [call[c] EXCEPT !.pc = "limited", !.max = limit]
    <3>2. k \in CallRecord BY <1>0, <3>1, CallFields, SnapshotTyped
    <3>3. call' = [call EXCEPT ![c] = k] BY <1>9 DEF ReadLimit
    <3> HIDE DEF k
    <3>4. QED BY <1>0, <3>2, <3>3, CallTyped
  <2>2. QED BY <1>9, <2>1 DEF ReadLimit, row
<1>10. CASE ApplyLimit(c)
  <2>1. call[c].after \in PCs /\ call[c].at \in Servers /\ Deadline(c) \in Int
    BY <1>0, CallFields DEF Deadline
  <2>2. call' \in [Procs -> CallRecord]
    BY <1>0, <1>10, <2>1, GotoType DEF ApplyLimit
  <2>3. timers' \in [Servers -> Nat \cup {NoTime}]
    BY <1>0, <1>10, <2>1 DEF ApplyLimit
  <2>4. QED BY <1>10, <2>2, <2>3 DEF ApplyLimit, row
<1>11. CASE Upsert(c)
  <2>1. call' \in [Procs -> CallRecord]
    <3>1. PICK pc \in PCs : call' = [call EXCEPT ![c] = [@ EXCEPT !.pc = pc, !.after = "ok"]]
      BY <1>11 DEF Upsert
    <3>2. [call[c] EXCEPT !.pc = pc, !.after = "ok"] \in CallRecord
      BY <1>0, CallFields DEF CallRecord
    <3>3. QED BY <3>1, <3>2
  <2>2. participants' \in [Users -> {"absent", "present", "left"}]
    BY <1>0, <1>11, CallFields DEF Upsert
  <2>3. QED BY <1>11, <2>1, <2>2 DEF Upsert, row
<1>12. CASE MarkStarted(c)
  <2>1. call' \in [Procs -> CallRecord]
    <3>1. [call[c] EXCEPT !.pc = "limit", !.after = "ok", !.seen = "ACTIVE",
                          !.seenStart = now] \in CallRecord
      <4>1. call[c] \in CallRecord /\ now \in Int BY <1>0, CallFields
      <4>2. QED BY <4>1 DEF CallRecord
    <3>2. QED BY <1>12, <3>1 DEF MarkStarted
  <2>2. QED BY <1>0, <1>12, <2>1 DEF MarkStarted
<1>13. CASE MarkLeft(c)
  <2>1. call' \in [Procs -> CallRecord]
    BY <1>0, <1>13, GotoType DEF MarkLeft
  <2>2. participants' \in [Users -> {"absent", "present", "left"}]
    BY <1>0, <1>13, CallFields DEF MarkLeft
  <2>3. QED BY <1>13, <2>1, <2>2 DEF MarkLeft, row
<1>14. QED
  BY <1>1, <1>2, <1>3, <1>4, <1>5, <1>6, <1>7, <1>8, <1>9, <1>10, <1>11, <1>12, <1>13
  DEF CallStep

(* Every step of end() keeps the types. *)
LEMMA EndStepType ==
  ASSUME TypeOK, NEW p \in Procs, EndStep(p)
  PROVE  TypeOK'
<1> USE MeetingAssumption, Names DEF TypeOK
<1>0. now \in Nat /\ Return(p) \in PCs
  BY DEF Return
<1>1. CASE EndFind(p)
  <2>1. call' \in [Procs -> CallRecord]
    <3> DEFINE k == [call[p] EXCEPT !.pc = "end_found", !.seen = status]
    <3>1. k \in CallRecord BY CallFields, SnapshotTyped
    <3>2. call' = [call EXCEPT ![p] = k] BY <1>1 DEF EndFind
    <3> HIDE DEF k
    <3>3. QED BY <3>1, <3>2, CallTyped
  <2>2. QED BY <1>1, <2>1 DEF EndFind, row
<1>2. CASE EndFound(p)
  <2>1. call' \in [Procs -> CallRecord]
    BY <1>0, <1>2, GotoType DEF EndFound
  <2>2. timers' \in [Servers -> Nat \cup {NoTime}]
    BY <1>2, CallFields DEF EndFound
  <2>3. QED BY <1>2, <2>1, <2>2 DEF EndFound, row
<1>3. CASE MarkEnded(p) BY <1>0, <1>3, GotoType DEF MarkEnded
<1>4. CASE Announce(p) BY <1>0, <1>4, GotoType DEF Announce, row
<1>5. QED BY <1>1, <1>2, <1>3, <1>4 DEF EndStep

(* Every step of the console keeps the types. *)
LEMMA ConsoleStepType ==
  ASSUME TypeOK, NEW c \in Calls, ConsoleStep(c)
  PROVE  TypeOK'
<1> USE MeetingAssumption, Names DEF TypeOK
<1>0. c \in Procs /\ now \in Nat BY DEF Procs
<1>1. PICK pc \in {"ok", "ended", "rejected", "leave", "force_write", "find_participant"} :
        Goto(c, pc)
  BY ConsoleMoves
<1>2. call' \in [Procs -> CallRecord] BY <1>0, <1>1, GotoType
<1>3. /\ UNCHANGED <<startedAt, participants, limit, now, timers, emitted, faults>>
      /\ UNCHANGED <<status, endedAt>> \/ (status' = "ENDED" /\ endedAt' = now)
  BY ConsoleMoves
<1>4. QED BY <1>0, <1>2, <1>3

(* Timers, crashes, failed accesses, the clock and limit changes keep the  *)
(* types.                                                                  *)
LEMMA EnvironmentType ==
  ASSUME TypeOK,
         \/ \E s \in Servers : TimerFire(s) \/ Crash(s)
         \/ Tick \/ \E m \in Limits : SetLimit(m)
         \/ \E c \in Calls : AccessFails(c)
  PROVE  TypeOK'
<1> USE MeetingAssumption, Names DEF MeetingAssumption, TypeOK
<1>1. CASE \E s \in Servers : TimerFire(s)
  BY <1>1, GotoType DEF TimerFire, Procs, row
<1>2. CASE \E s \in Servers : Crash(s)
  <2>1. PICK s \in Servers : Crash(s) BY <1>2
  <2>2. call' \in [Procs -> CallRecord]
    BY <2>1, CallFields DEF Crash, CallRecord
  <2>3. timers' \in [Servers -> Nat \cup {NoTime}]
    BY <2>1 DEF Crash
  <2>4. faults' \in 0..MaxFaults
    BY <2>1 DEF Crash
  <2>5. QED BY <2>1, <2>2, <2>3, <2>4 DEF Crash, row
<1>3. CASE Tick BY <1>3 DEF Tick, row
<1>4. CASE \E m \in Limits : SetLimit(m) BY <1>4 DEF SetLimit, row
<1>5. CASE \E c \in Calls : AccessFails(c)
  <2>1. PICK c \in Calls : AccessFails(c) BY <1>5
  <2>2. call' \in [Procs -> CallRecord]
    BY <2>1, GotoType DEF AccessFails, Procs
  <2>3. faults' \in 0..MaxFaults
    BY <2>1 DEF AccessFails
  <2>4. QED BY <2>1, <2>2, <2>3 DEF AccessFails, row
<1>6. QED BY <1>1, <1>2, <1>3, <1>4, <1>5

(* Every reachable state has its type. *)
THEOREM TypeCorrect == Spec => []TypeOK
<1>1. TypeOK /\ [Next]_vars => TypeOK'
  <2> SUFFICES ASSUME TypeOK, [Next]_vars PROVE TypeOK' OBVIOUS
  <2>1. CASE UNCHANGED vars BY <2>1 DEF TypeOK, vars, row
  <2>2. CASE Next
    BY <2>2, CallStepType, ConsoleStepType, EndStepType, EnvironmentType DEF Next
  <2>3. QED BY <2>1, <2>2
<1>2. QED BY InitType, <1>1, PTL DEF Spec

-----------------------------------------------------------------------------
(* The inductive invariant.  RowConsistent and LimitWatched speak of the   *)
(* row and of who will write it next; to carry them over a step one must   *)
(* know what a call at a given point of its handler has already seen and   *)
(* done.                                                                   *)

At(p, pc) ==
  /\ p \in Servers => /\ call[p].op = "timer"
                      /\ pc \in {"idle", "end_find", "end_found", "end_write", "announce"}
  /\ p \notin Servers => call[p].op \in AllOps
  /\ pc = "leave" => call[p].op \in {"leave", "kick"}
  /\ pc = "ended" => call[p].op \in {"force_end", "bulk_end"}
  /\ pc = "force_write" => call[p].op = "force_end"
  /\ pc = "bulk_write" => call[p].op = "bulk_end"
  /\ pc = "find_participant" => call[p].op = "kick"
  /\ pc = "refind" => call[p].op = "token"
  /\ pc = "upsert" => call[p].op = "join" /\ call[p].seen # "ENDED"
  /\ pc = "start" => /\ call[p].op = "join" /\ call[p].seen = "WAITING"
                     /\ participants[call[p].actor] # "absent"
  /\ pc \in {"limit", "limited"} =>
       /\ call[p].seen = "ACTIVE"
       /\ \/ call[p].op = "join" /\ call[p].after = "upsert"
          \/ call[p].op = "join" /\ call[p].after = "ok"
             /\ participants[call[p].actor] # "absent"
          \/ call[p].op = "token" /\ call[p].after = "refind"
          \/ call[p].op = "guest" /\ call[p].after = "ok"
  /\ pc = "limited" => call[p].max \in Limits
  /\ pc \in {"found", "limit", "limited", "upsert"} /\ call[p].seen = "ACTIVE" =>
       startedAt # NoTime
  /\ pc \in {"found", "end_found"} /\ call[p].seen = "ENDED" => endedAt # NoTime
  /\ pc = "ok" /\ call[p].op = "join" =>
       startedAt # NoTime /\ participants[call[p].actor] # "absent"

Shape(p) == At(p, call[p].pc)

CallShape == \A p \in Procs : Shape(p)

(* What no step takes back. *)
Grows ==
  /\ startedAt # NoTime => startedAt' # NoTime
  /\ endedAt # NoTime => endedAt' # NoTime
  /\ \A u \in Users : participants[u] # "absent" => participants'[u] # "absent"

(* Every step lets the meeting grow older only. *)
LEMMA NextGrows ==
  ASSUME TypeOK, [Next]_vars
  PROVE  Grows
<1> USE DEF TypeOK, Grows
<1>0. now # NoTime BY MeetingAssumption DEF MeetingAssumption, NoTime
<1>1. CASE UNCHANGED vars BY <1>1 DEF vars, row
<1>2. ASSUME NEW c \in Calls, CallStep(c) PROVE Grows
  <2>1. CASE Upsert(c) BY <2>1 DEF Upsert, row
  <2>2. CASE MarkStarted(c) BY <1>0, <2>2 DEF MarkStarted
  <2>3. CASE MarkLeft(c) BY <2>3 DEF MarkLeft, row
  <2>4. CASE Begin(c) \/ Find(c) \/ LeaveFound(c) \/ WebhookFound(c) \/ TokenRefind(c)
             \/ ReadLimit(c)
    BY <2>4 DEF Begin, Find, LeaveFound, WebhookFound, TokenRefind, ReadLimit, row
  <2>5. CASE JoinFound(c) \/ GuestFound(c) \/ TokenFound(c) \/ ApplyLimit(c)
    BY <2>5 DEF JoinFound, GuestFound, TokenFound, ApplyLimit, row
  <2>6. QED BY <1>2, <2>1, <2>2, <2>3, <2>4, <2>5 DEF CallStep
<1>3. ASSUME NEW p \in Procs, EndStep(p) PROVE Grows
  BY <1>0, <1>3 DEF EndStep, EndFind, EndFound, MarkEnded, Announce, row
<1>4. ASSUME NEW s \in Servers, TimerFire(s) \/ Crash(s) PROVE Grows
  BY <1>4 DEF TimerFire, Crash, row
<1>5. CASE Tick \/ \E m \in Limits : SetLimit(m) BY <1>5 DEF Tick, SetLimit, row
<1>6. ASSUME NEW c \in Calls, AccessFails(c) PROVE Grows
  BY <1>6 DEF AccessFails, row
<1>7. ASSUME NEW c \in Calls, ConsoleStep(c) PROVE Grows
  BY <1>0, <1>7, ConsoleMoves
<1>8. QED BY <1>1, <1>2, <1>3, <1>4, <1>5, <1>6, <1>7 DEF Next

(* A call that does not move keeps its shape. *)
LEMMA ShapeFrame ==
  ASSUME TypeOK, Grows, NEW q \in Procs, Shape(q), call'[q] = call[q]
  PROVE  Shape(q)'
BY CallFields DEF Shape, At, Grows

(* The fields of the calls after one of them moved. *)
LEMMA GotoFields ==
  ASSUME TypeOK, NEW p \in Procs, NEW pc, Goto(p, pc)
  PROVE  /\ call'[p] = [call[p] EXCEPT !.pc = pc]
         /\ call'[p].pc = pc /\ call'[p].op = call[p].op
         /\ call'[p].actor = call[p].actor /\ call'[p].at = call[p].at
         /\ call'[p].seen = call[p].seen /\ call'[p].seenStart = call[p].seenStart
         /\ call'[p].max = call[p].max /\ call'[p].after = call[p].after
         /\ \A q \in Procs \ {p} : call'[q] = call[q]
BY CallFields DEF TypeOK, Goto, CallRecord

(* A call may go wherever its snapshot is in shape already. *)
LEMMA GotoShape ==
  ASSUME TypeOK, Grows, NEW p \in Procs, NEW pc, Goto(p, pc), At(p, pc)
  PROVE  Shape(p)' /\ \A q \in Procs \ {p} : call'[q] = call[q]
<1>1. call[p].actor \in Users BY CallFields
<1>2. /\ call'[p].pc = pc /\ call'[p].op = call[p].op
      /\ call'[p].actor = call[p].actor /\ call'[p].seen = call[p].seen
      /\ call'[p].max = call[p].max /\ call'[p].after = call[p].after
      /\ \A q \in Procs \ {p} : call'[q] = call[q]
  BY GotoFields
<1>3. Shape(p)' BY <1>1, <1>2 DEF Shape, At, Grows
<1>4. QED BY <1>2, <1>3

(* What enforceMeetingDurationLimit does to the call that runs it. *)
LEMMA EnforceLimitFields ==
  ASSUME TypeOK, NEW p \in Procs, NEW next, EnforceLimit(p, next)
  PROVE  /\ \A q \in Procs \ {p} : call'[q] = call[q]
         /\ call'[p].op = call[p].op /\ call'[p].actor = call[p].actor
         /\ call'[p].seen = call[p].seen
         /\ \/ call[p].seen = "ACTIVE" /\ call'[p].pc = "limit" /\ call'[p].after = next
            \/ call[p].seen # "ACTIVE" /\ call'[p].pc = next
         /\ call[p].seen # "ENDED" => UNCHANGED timers
<1>1. CASE Goto(p, next) /\ call[p].seen # "ACTIVE"
           /\ (call[p].seen # "ENDED" => UNCHANGED timers)
  BY <1>1, GotoFields
<1>2. CASE /\ call' = [call EXCEPT ![p] = [@ EXCEPT !.pc = "limit", !.after = next]]
           /\ call[p].seen = "ACTIVE" /\ UNCHANGED timers
  BY <1>2, CallFields DEF TypeOK, CallRecord
<1>3. QED BY <1>1, <1>2 DEF EnforceLimit

(* Every step of a call leaves that call in shape, and the others alone. *)
LEMMA CallStepShape ==
  ASSUME TypeOK, CallShape, RowConsistent, Grows, NEW c \in Calls, CallStep(c)
  PROVE  CallShape'
<1> USE MeetingAssumption, Names DEF MeetingAssumption
<1>0. c \in Procs /\ c \notin Servers /\ Shape(c)
  BY DEF CallShape, Procs
<1>fields. /\ call[c] \in CallRecord /\ call[c].actor \in Users
           /\ call[c].seen \in Statuses
  BY <1>0, CallFields
<1>1. SUFFICES /\ \A q \in Procs \ {c} : call'[q] = call[q]
               /\ Shape(c)'
  <2>1. \A q \in Procs \ {c} : Shape(q)'
    BY ShapeFrame DEF CallShape
  <2>2. QED BY <2>1 DEF CallShape
<1> USE <1>0, <1>fields
<1>2. CASE Begin(c)
  <2> DEFINE pc == CASE call[c].op = "end" -> "end_find"
                     [] call[c].op = "bulk_end" -> "bulk_write"
                     [] OTHER -> "find"
  <2>1. Goto(c, pc) BY <1>2 DEF Begin
  <2>2. At(c, pc) BY <1>2 DEF Begin, Shape, At
  <2>3. QED BY <2>1, <2>2, GotoShape
<1>3. CASE Find(c)
  <2>1. /\ \A q \in Procs \ {c} : call'[q] = call[q]
        /\ call'[c].pc = "found" /\ call'[c].op = call[c].op
        /\ call'[c].seen = status /\ UNCHANGED row
    BY <1>3 DEF Find, TypeOK, CallRecord
  <2>2. QED BY <2>1 DEF Shape, At, row, RowConsistent
<1>4. CASE JoinFound(c)
  <2>1. CASE Goto(c, "rejected")
    <3>1. At(c, "rejected") BY DEF Shape, At
    <3>2. QED BY <2>1, <3>1, GotoShape
  <2>2. CASE EnforceLimit(c, "upsert") /\ call[c].seen # "ENDED"
    <3>1. UNCHANGED <<row, participants>> BY <1>4 DEF JoinFound
    <3>2. QED BY <3>1, <2>2, <1>4, EnforceLimitFields DEF JoinFound, Shape, At, row
  <2>3. QED BY <1>4, <2>1, <2>2 DEF JoinFound
<1>5. CASE GuestFound(c)
  <2>1. CASE Goto(c, "rejected")
    <3>1. At(c, "rejected") BY DEF Shape, At
    <3>2. QED BY <2>1, <3>1, GotoShape
  <2>2. CASE EnforceLimit(c, "ok")
    <3>1. UNCHANGED <<row, participants>> BY <1>5 DEF GuestFound
    <3>2. QED BY <3>1, <2>2, <1>5, EnforceLimitFields DEF GuestFound, Shape, At, row
  <2>3. QED BY <1>5, <2>1, <2>2 DEF GuestFound
<1>6. CASE TokenFound(c)
  <2>1. UNCHANGED <<row, participants>> BY <1>6 DEF TokenFound
  <2>2. QED BY <2>1, <1>6, EnforceLimitFields DEF TokenFound, Shape, At, row
<1>7. CASE TokenRefind(c) 
  <2> DEFINE pc == IF status = "ENDED" THEN "rejected" ELSE "ok"
  <2>1. Goto(c, pc) BY <1>7 DEF TokenRefind
  <2>2. At(c, pc) BY <1>7 DEF TokenRefind, Shape, At
  <2>3. QED BY <2>1, <2>2, GotoShape
<1>8. CASE LeaveFound(c) 
  <2>1. Goto(c, "leave") BY <1>8 DEF LeaveFound
  <2>2. At(c, "leave") BY <1>8 DEF LeaveFound, Shape, At
  <2>3. QED BY <2>1, <2>2, GotoShape
<1>9. CASE WebhookFound(c) 
  <2> DEFINE pc == IF call[c].seen = "ENDED" THEN "ok" ELSE "end_find"
  <2>1. Goto(c, pc) BY <1>9 DEF WebhookFound
  <2>2. At(c, pc) BY <1>9 DEF WebhookFound, Shape, At
  <2>3. QED BY <2>1, <2>2, GotoShape
<1>10. CASE ReadLimit(c)
  <2>1. /\ \A q \in Procs \ {c} : call'[q] = call[q]
        /\ call'[c].pc = "limited" /\ call'[c].op = call[c].op
        /\ call'[c].actor = call[c].actor /\ call'[c].after = call[c].after
        /\ call'[c].seen = call[c].seen /\ call'[c].max = limit
        /\ UNCHANGED <<row, participants>>
    BY <1>10 DEF ReadLimit, TypeOK, CallRecord
  <2>2. QED BY <2>1, <1>10 DEF ReadLimit, Shape, At, row, TypeOK
<1>11. CASE ApplyLimit(c)
  <2>1. UNCHANGED <<row, participants>> BY <1>11 DEF ApplyLimit
  <2>2. CASE Goto(c, "end_find")
    <3>1. At(c, "end_find") BY DEF Shape, At
    <3>2. QED BY <2>2, <3>1, GotoShape
  <2>3. CASE Goto(c, call[c].after)
    <3>1. At(c, call[c].after) BY <1>11 DEF ApplyLimit, Shape, At
    <3>2. QED BY <2>3, <3>1, GotoShape
  <2>4. QED BY <1>11, <2>2, <2>3 DEF ApplyLimit
<1>12. CASE Upsert(c)
  <2>1. /\ \A q \in Procs \ {c} : call'[q] = call[q]
        /\ call'[c].pc = IF call[c].seen = "WAITING" THEN "start" ELSE "limit"
        /\ call'[c].op = call[c].op /\ call'[c].actor = call[c].actor
        /\ call'[c].seen = call[c].seen /\ call'[c].after = "ok"
        /\ participants'[call[c].actor] = "present"
        /\ UNCHANGED row
    BY <1>12 DEF Upsert, TypeOK, CallRecord
  <2>2. QED BY <2>1, <1>12 DEF Upsert, Shape, At, row, Statuses
<1>13. CASE MarkStarted(c)
  <2>1. /\ \A q \in Procs \ {c} : call'[q] = call[q]
        /\ call'[c].pc = "limit" /\ call'[c].op = call[c].op
        /\ call'[c].actor = call[c].actor
        /\ call'[c].seen = "ACTIVE" /\ call'[c].after = "ok"
        /\ UNCHANGED participants /\ startedAt' = now
    BY <1>13 DEF MarkStarted, TypeOK, CallRecord
  <2>2. now # NoTime BY DEF TypeOK, NoTime
  <2>3. QED BY <2>1, <2>2, <1>13 DEF MarkStarted, Shape, At
<1>14. CASE MarkLeft(c) 
  <2>1. Goto(c, "ok") BY <1>14 DEF MarkLeft
  <2>2. At(c, "ok") BY <1>14 DEF MarkLeft, Shape, At
  <2>3. QED BY <2>1, <2>2, GotoShape
<1>15. QED
  BY <1>2, <1>3, <1>4, <1>5, <1>6, <1>7, <1>8, <1>9, <1>10, <1>11, <1>12, <1>13, <1>14
  DEF CallStep

(* Every step of the console leaves its call in shape. *)
LEMMA ConsoleStepShape ==
  ASSUME TypeOK, CallShape, Grows, NEW c \in Calls, ConsoleStep(c)
  PROVE  CallShape'
<1>0. c \in Procs /\ c \notin Servers /\ Shape(c)
  BY MeetingAssumption DEF MeetingAssumption, CallShape, Procs
<1>1. \E pc : Goto(c, pc) /\ At(c, pc)
  <2>1. CASE ForceFound(c)
    <3>1. At(c, "ok") /\ At(c, "force_write") BY <1>0, <2>1 DEF ForceFound, Shape, At
    <3>2. QED BY <2>1, <3>1 DEF ForceFound
  <2>2. CASE ForceEnd(c)
    <3>1. At(c, "ended") BY <1>0, <2>2 DEF ForceEnd, Shape, At
    <3>2. QED BY <2>2, <3>1 DEF ForceEnd
  <2>3. CASE BulkEnd(c)
    <3>1. At(c, "ok") /\ At(c, "ended") BY <1>0, <2>3 DEF BulkEnd, Shape, At
    <3>2. QED BY <2>3, <3>1 DEF BulkEnd
  <2>4. CASE KickFound(c)
    <3>1. At(c, "find_participant") BY <1>0, <2>4 DEF KickFound, Shape, At
    <3>2. QED BY <2>4, <3>1 DEF KickFound
  <2>5. CASE FindParticipant(c)
    <3>1. At(c, "rejected") /\ At(c, "leave") BY <1>0, <2>5 DEF FindParticipant, Shape, At
    <3>2. QED BY <2>5, <3>1 DEF FindParticipant
  <2>6. QED BY <2>1, <2>2, <2>3, <2>4, <2>5 DEF ConsoleStep
<1>2. PICK pc : Goto(c, pc) /\ At(c, pc) BY <1>1
<1>3. Shape(c)' /\ \A q \in Procs \ {c} : call'[q] = call[q] BY <1>0, <1>2, GotoShape
<1>4. QED BY <1>3, ShapeFrame DEF CallShape

(* No end() returns as a join that was let in. *)
LEMMA ReturnAt ==
  ASSUME NEW p \in Procs, Shape(p)
  PROVE  At(p, Return(p))
BY DEF Shape, At, Return, AllOps, ConsoleOps

(* The steps of end() keep the shape of the calls. *)
LEMMA EndStepShape ==
  ASSUME TypeOK, CallShape, RowConsistent, Grows, NEW p \in Procs, EndStep(p)
  PROVE  CallShape'
<1> USE MeetingAssumption, Names DEF MeetingAssumption
<1>0. Shape(p) /\ call[p].actor \in Users
  BY CallFields DEF CallShape
<1>1. SUFFICES /\ \A q \in Procs \ {p} : call'[q] = call[q]
               /\ Shape(p)'
  <2>1. \A q \in Procs \ {p} : Shape(q)'
    BY ShapeFrame DEF CallShape
  <2>2. QED BY <2>1 DEF CallShape
<1> USE <1>0
<1>2. CASE EndFind(p)
  <2>1. /\ \A q \in Procs \ {p} : call'[q] = call[q]
        /\ call'[p].pc = "end_found" /\ call'[p].op = call[p].op
        /\ call'[p].seen = status /\ UNCHANGED row
    BY <1>2, CallFields DEF EndFind, TypeOK, CallRecord
  <2>2. QED BY <2>1, <1>2 DEF EndFind, Shape, At, row, RowConsistent
<1>3. CASE EndFound(p)
  <2>1. CASE ~Entitled(p) /\ Goto(p, "rejected")
    <3>1. At(p, "rejected") BY <2>1 DEF Shape, At, Entitled
    <3>2. QED BY <2>1, <3>1, GotoShape
  <2>2. CASE Goto(p, IF call[p].seen = "ENDED" THEN Return(p) ELSE "end_write")
    <3>1. At(p, Return(p)) BY <1>0, ReturnAt
    <3>2. At(p, "end_write") BY <1>0 DEF Shape, At
    <3>3. QED BY <2>2, <3>1, <3>2, GotoShape
  <2>3. QED BY <1>3, <2>1, <2>2 DEF EndFound
<1>4. CASE MarkEnded(p) 
  <2>1. Goto(p, "announce") BY <1>4 DEF MarkEnded
  <2>2. At(p, "announce") BY DEF Shape, At
  <2>3. QED BY <2>1, <2>2, GotoShape
<1>5. CASE Announce(p) 
  <2>1. Goto(p, Return(p)) BY <1>5 DEF Announce
  <2>2. At(p, Return(p)) BY ReturnAt
  <2>3. QED BY <2>1, <2>2, GotoShape
<1>6. QED BY <1>2, <1>3, <1>4, <1>5 DEF EndStep

(* So does everything that is not a step of a handler. *)
LEMMA EnvironmentShape ==
  ASSUME TypeOK, CallShape, Grows,
         \/ \E s \in Servers : TimerFire(s) \/ Crash(s)
         \/ Tick \/ \E m \in Limits : SetLimit(m)
         \/ \E c \in Calls : AccessFails(c)
  PROVE  CallShape'
<1> USE MeetingAssumption, Names DEF MeetingAssumption
<1>1. ASSUME NEW s \in Servers, TimerFire(s) PROVE CallShape'
  <2>1. s \in Procs /\ Shape(s) BY DEF Procs, CallShape
  <2>2. At(s, "end_find") BY <2>1 DEF Shape, At
  <2>3. Shape(s)' /\ \A q \in Procs \ {s} : call'[q] = call[q]
    BY <1>1, <2>1, <2>2, GotoShape DEF TimerFire
  <2>4. QED BY <2>3, ShapeFrame DEF CallShape
<1>2. ASSUME NEW s \in Servers, Crash(s) PROVE CallShape'
  <2> SUFFICES ASSUME NEW q \in Procs PROVE Shape(q)'
    BY DEF CallShape
  <2>1. Shape(q) BY DEF CallShape
  <2>2. CASE call'[q] = call[q] BY <2>1, <2>2, ShapeFrame
  <2>3. CASE call'[q] = [call[q] EXCEPT !.pc = IF q \in Servers THEN "idle" ELSE "lost"]
    BY <2>1, <2>3, CallFields DEF Shape, At, CallRecord
  <2>4. QED BY <1>2, <2>2, <2>3 DEF Crash
<1>3. CASE Tick \/ \E m \in Limits : SetLimit(m)
  BY <1>3, ShapeFrame DEF Tick, SetLimit, CallShape
<1>4. ASSUME NEW c \in Calls, AccessFails(c) PROVE CallShape'
  <2>1. c \in Procs /\ c \notin Servers /\ Shape(c) BY DEF Procs, CallShape
  <2>2. At(c, "rejected") BY <2>1 DEF Shape, At
  <2>3. Shape(c)' /\ \A q \in Procs \ {c} : call'[q] = call[q]
    BY <1>4, <2>1, <2>2, GotoShape DEF AccessFails
  <2>4. QED BY <2>3, ShapeFrame DEF CallShape
<1>5. QED BY <1>1, <1>2, <1>3, <1>4

(* The shape of the calls is kept by every step. *)
LEMMA NextShape ==
  ASSUME TypeOK, CallShape, RowConsistent, [Next]_vars
  PROVE  CallShape'
<1>1. Grows BY NextGrows
<1>2. CASE UNCHANGED vars BY <1>1, <1>2, ShapeFrame DEF CallShape, vars
<1>3. CASE Next
  BY <1>1, <1>3, CallStepShape, ConsoleStepShape, EndStepShape, EnvironmentShape DEF Next
<1>4. QED BY <1>2, <1>3

(* The timestamps agree with the status after every step. *)
LEMMA NextRow ==
  ASSUME TypeOK, CallShape', RowConsistent, [Next]_vars
  PROVE  RowConsistent'
<1> DEFINE Times == /\ status = "WAITING" => startedAt = NoTime /\ endedAt = NoTime
                    /\ status = "ACTIVE" => startedAt # NoTime
                    /\ status = "ENDED" => endedAt # NoTime
                    /\ startedAt <= now /\ endedAt <= now
<1>0. /\ Times /\ now \in Nat /\ startedAt \in Int /\ endedAt \in Int /\ MaxTime \in Nat
  BY MeetingAssumption DEF MeetingAssumption, TypeOK, RowConsistent, NoTime
<1>joined. SUFFICES Times'
  <2>1. \A c \in Calls : (call[c].op = "join" /\ call[c].pc = "ok" =>
          startedAt # NoTime /\ participants[call[c].actor] # "absent")'
    BY DEF CallShape, Shape, At, Procs
  <2>2. QED BY <2>1 DEF RowConsistent
<1>1. CASE UNCHANGED <<row, now>> BY <1>0, <1>1 DEF row
<1>2. CASE /\ status' \in {"ACTIVE", "ENDED"}
           /\ startedAt' = IF status' = "ACTIVE" THEN now ELSE startedAt
           /\ endedAt' = IF status' = "ENDED" THEN now ELSE endedAt
           /\ now' = now
  <2>1. CASE status' = "ACTIVE" BY <1>0, <1>2, <2>1 DEF NoTime
  <2>2. CASE status' = "ENDED" BY <1>0, <1>2, <2>2 DEF NoTime
  <2>3. QED BY <1>2, <2>1, <2>2
<1>3. CASE Tick BY <1>0, <1>3 DEF Tick, row
<1>4. ASSUME NEW c \in Calls, CallStep(c) PROVE Times'
  <2>1. CASE MarkStarted(c) BY <1>2, <2>1 DEF MarkStarted
  <2>2. CASE ~MarkStarted(c)
    BY <1>1, <1>4, <2>2
    DEF CallStep, Begin, Find, JoinFound, GuestFound, TokenFound, LeaveFound, WebhookFound,
        TokenRefind, ReadLimit, ApplyLimit, Upsert, MarkLeft
  <2>3. QED BY <2>1, <2>2
<1>5. ASSUME NEW p \in Procs, EndStep(p) PROVE Times'
  <2>1. CASE MarkEnded(p) BY <1>2, <2>1 DEF MarkEnded
  <2>2. CASE EndFind(p) \/ EndFound(p) \/ Announce(p)
    BY <1>1, <2>2 DEF EndFind, EndFound, Announce
  <2>3. QED BY <1>5, <2>1, <2>2 DEF EndStep
<1>6. ASSUME \/ \E s \in Servers : TimerFire(s) \/ Crash(s)
             \/ \E m \in Limits : SetLimit(m)
             \/ \E c \in Calls : AccessFails(c)
      PROVE  Times'
  BY <1>1, <1>6 DEF TimerFire, Crash, SetLimit, AccessFails
<1>7. CASE UNCHANGED vars BY <1>1, <1>7 DEF vars
<1>8. ASSUME NEW c \in Calls, ConsoleStep(c) PROVE Times'
  <2>1. CASE UNCHANGED <<status, endedAt>> BY <1>1, <1>8, <2>1, ConsoleMoves DEF row
  <2>2. CASE status' = "ENDED" /\ endedAt' = now BY <1>2, <1>8, <2>2, ConsoleMoves
  <2>3. QED BY <1>8, <2>1, <2>2, ConsoleMoves
<1>9. CASE Next BY <1>3, <1>4, <1>5, <1>6, <1>8, <1>9 DEF Next
<1>10. QED BY <1>7, <1>9

-----------------------------------------------------------------------------
(* LimitWatched is kept by a token passed between the timers and the calls *)
(* in flight: whoever clears the last timer is on the way to end_write,    *)
(* and whoever leaves the handler of an active meeting has armed one.      *)

Armed == \E s \in Servers : timers[s] # NoTime
Watched == Armed \/ \E p \in Procs : Watcher(p)

(* The states in which the meeting has to be watched, as an assumption. *)
Pressing ==
  faults = 0 /\ NoLimit \notin Limits /\ status = "ACTIVE" /\ endedAt = NoTime

(* A call that does not move keeps watching. *)
LEMMA WatchKept ==
  ASSUME NEW p \in Procs, Watched,
         \A q \in Procs \ {p} : call'[q] = call[q],
         Armed => Watched', Watcher(p) => Watched'
  PROVE  Watched'
BY DEF Watched, Watcher, Entitled

(* The steps of a call that move it between program counters outside the   *)
(* enforcement of the limit and leave the timers alone.                    *)
LEMMA GotoWatched ==
  ASSUME TypeOK, NEW p \in Procs, NEW pc, Goto(p, pc), UNCHANGED timers,
         Watched, ~Watcher(p)
  PROVE  Watched'
<1>1. \A q \in Procs \ {p} : call'[q] = call[q] BY GotoFields
<1>2. Armed => Watched' BY DEF Armed, Watched
<1>3. QED BY <1>1, <1>2, WatchKept

(* enforceMeetingDurationLimit leaves a watcher behind. *)
LEMMA EnforceLimitWatched ==
  ASSUME TypeOK, NEW p \in Procs, NEW next, EnforceLimit(p, next),
         call[p].seen # "ENDED", call[p].pc = "found", Watched
  PROVE  Watched'
<1>1. \A q \in Procs \ {p} : call'[q] = call[q]
  BY EnforceLimitFields
<1>2. Armed => Watched' BY EnforceLimitFields DEF Armed, Watched
<1>3. ~Watcher(p) BY DEF Watcher
<1>4. QED BY <1>1, <1>2, <1>3, WatchKept

(* markStarted's call goes on to the limit; nobody else starts a meeting. *)
LEMMA StartWatched ==
  ASSUME TypeOK, NEW c \in Calls, MarkStarted(c)
  PROVE  Watched'
<1>1. c \in Procs BY DEF Procs
<1>2. call'[c].pc = "limit" BY <1>1 DEF MarkStarted, TypeOK, CallRecord
<1>3. QED BY <1>1, <1>2 DEF Watched, Watcher

(* The steps of the calls never take the last watcher away. *)
LEMMA CallStepWatched ==
  ASSUME TypeOK, CallShape, Pressing, NEW c \in Calls, CallStep(c), Watched
  PROVE  Watched'
<1>0. c \in Procs /\ Shape(c) BY DEF CallShape, Procs
<1> USE <1>0
<1>1. CASE MarkStarted(c) BY <1>1, StartWatched
<1>2. CASE Begin(c) \/ TokenRefind(c) \/ LeaveFound(c) \/ WebhookFound(c) \/ MarkLeft(c)
  <2>1. ~Watcher(c) /\ UNCHANGED timers
    BY <1>2 DEF Begin, TokenRefind, LeaveFound, WebhookFound, MarkLeft, Watcher
  <2>2. \E pc : Goto(c, pc)
    BY <1>2 DEF Begin, TokenRefind, LeaveFound, WebhookFound, MarkLeft
  <2>3. QED BY <2>1, <2>2, GotoWatched
<1>3. CASE Find(c) \/ Upsert(c)
  <2>1. ~Watcher(c) /\ UNCHANGED timers BY <1>3 DEF Find, Upsert, Watcher
  <2>2. \A q \in Procs \ {c} : call'[q] = call[q]
    BY <1>3 DEF Find, Upsert, TypeOK
  <2>3. QED BY <2>1, <2>2, WatchKept DEF Armed, Watched
<1>4. CASE JoinFound(c) \/ GuestFound(c) \/ TokenFound(c)
  <2>1. call[c].pc = "found" BY <1>4 DEF JoinFound, GuestFound, TokenFound
  <2>2. call[c].seen # "ENDED" BY <2>1 DEF Shape, At, Pressing
  <2>3. \E next : EnforceLimit(c, next)
    BY <1>4, <2>2 DEF JoinFound, GuestFound, TokenFound
  <2>4. QED BY <2>1, <2>2, <2>3, EnforceLimitWatched
<1>5. CASE ReadLimit(c)
  <2>1. call'[c].pc = "limited" BY <1>5 DEF ReadLimit, TypeOK, CallRecord
  <2>2. QED BY <2>1 DEF Watched, Watcher
<1>6. CASE ApplyLimit(c)
  <2>1. call[c].max # NoLimit /\ call[c].max \in Limits
    BY <1>6 DEF ApplyLimit, Shape, At, Pressing
  <2>2. CASE Goto(c, "end_find")
    <3>1. call'[c].pc = "end_find" /\ call'[c].op = call[c].op BY <2>2, GotoFields
    <3>2. call[c].op # "end" BY <1>6 DEF ApplyLimit, Shape, At
    <3>3. QED BY <3>1, <3>2 DEF Watched, Watcher, Entitled
  <2>3. CASE /\ timers' = [timers EXCEPT ![call[c].at] = Deadline(c)]
             /\ Deadline(c) > now
    <3>1. /\ call[c].at \in Servers /\ Deadline(c) \in Int /\ now \in Int /\ now >= 0
      BY MeetingAssumption, CallFields DEF Deadline, TypeOK, MeetingAssumption
    <3>2. Deadline(c) # NoTime BY <3>1, <2>3 DEF NoTime
    <3>3. timers'[call[c].at] # NoTime BY <3>1, <3>2, <2>3 DEF TypeOK
    <3>4. QED BY <3>1, <3>3 DEF Watched, Armed
  <2>4. QED BY <1>6, <2>1, <2>2, <2>3 DEF ApplyLimit
<1>7. QED BY <1>1, <1>2, <1>3, <1>4, <1>5, <1>6 DEF CallStep

(* Nor do the steps of end(). *)
LEMMA EndStepWatched ==
  ASSUME TypeOK, CallShape, Pressing, Pressing', NEW p \in Procs, EndStep(p), Watched
  PROVE  Watched'
<1>0. Shape(p) BY DEF CallShape
<1>1. CASE EndFind(p)
  <2>1. /\ \A q \in Procs \ {p} : call'[q] = call[q]
        /\ call'[p].pc = "end_found" /\ call'[p].op = call[p].op
        /\ call'[p].actor = call[p].actor /\ UNCHANGED timers
    BY <1>1, CallFields DEF EndFind, TypeOK, CallRecord
  <2>2. Watcher(p) => Watched'
    <3>1. Watcher(p) => Entitled(p) BY <1>1 DEF EndFind, Watcher
    <3>2. Entitled(p) => Watcher(p)' BY <2>1 DEF Watcher, Entitled
    <3>3. QED BY <3>1, <3>2 DEF Watched
  <2>3. QED BY <2>1, <2>2, WatchKept DEF Armed, Watched
<1>2. CASE EndFound(p)
  <2>1. CASE ~Entitled(p) /\ Goto(p, "rejected") /\ UNCHANGED timers
    <3>1. ~Watcher(p) BY <1>2, <2>1 DEF EndFound, Watcher
    <3>2. QED BY <2>1, <3>1, GotoWatched
  <2>2. CASE Entitled(p) /\ Goto(p, IF call[p].seen = "ENDED" THEN Return(p) ELSE "end_write")
    <3>1. call[p].seen # "ENDED" BY <1>0, <1>2 DEF EndFound, Shape, At, Pressing
    <3>2. Goto(p, "end_write") BY <2>2, <3>1
    <3>3. /\ call'[p].pc = "end_write" /\ call'[p].op = call[p].op
          /\ call'[p].actor = call[p].actor
      BY <3>2, GotoFields
    <3>4. QED BY <2>2, <3>3 DEF Watched, Watcher, Entitled
  <2>3. QED BY <1>2, <2>1, <2>2 DEF EndFound
<1>3. CASE MarkEnded(p) BY <1>3 DEF MarkEnded, Pressing
<1>4. CASE Announce(p)
  <2>1. ~Watcher(p) /\ Goto(p, Return(p)) /\ UNCHANGED timers
    BY <1>4 DEF Announce, Watcher
  <2>2. QED BY <2>1, GotoWatched
<1>5. QED BY <1>1, <1>2, <1>3, <1>4 DEF EndStep

(* Nor does any other step. *)
LEMMA NextWatched ==
  ASSUME TypeOK, CallShape, LimitWatched, [Next]_vars
  PROVE  LimitWatched'
<1> SUFFICES ASSUME Pressing' PROVE Watched'
  BY DEF LimitWatched, Pressing, Watched, Armed
<1>1. Pressing => Watched BY DEF LimitWatched, Pressing, Watched, Armed
<1>2. CASE UNCHANGED vars
  BY <1>1, <1>2 DEF vars, row, Pressing, Watched, Armed, Watcher, Entitled
<1>3. ASSUME NEW c \in Calls, CallStep(c) PROVE Watched'
  <2>1. CASE MarkStarted(c) BY <2>1, StartWatched
  <2>2. CASE ~MarkStarted(c)
    <3>1. UNCHANGED row /\ UNCHANGED faults
      BY <1>3, <2>2
      DEF CallStep, Begin, Find, JoinFound, GuestFound, TokenFound, LeaveFound, WebhookFound,
          TokenRefind, ReadLimit, ApplyLimit, Upsert, MarkLeft
    <3>2. Pressing BY <3>1 DEF Pressing, row
    <3>3. QED BY <1>1, <1>3, <3>2, CallStepWatched
  <2>3. QED BY <2>1, <2>2
<1>4. ASSUME NEW p \in Procs, EndStep(p) PROVE Watched'
  <2>1. Pressing
    <3>1. CASE MarkEnded(p) BY <3>1 DEF MarkEnded, Pressing
    <3>2. CASE EndFind(p) \/ EndFound(p) \/ Announce(p)
      BY <3>2 DEF EndFind, EndFound, Announce, Pressing, row
    <3>3. QED BY <1>4, <3>1, <3>2 DEF EndStep
  <2>2. QED BY <1>1, <1>4, <2>1, EndStepWatched
<1>5. ASSUME NEW s \in Servers, TimerFire(s) PROVE Watched'
  <2>1. s \in Procs /\ Shape(s) /\ Goto(s, "end_find")
    BY <1>5 DEF TimerFire, CallShape, Procs
  <2>2. call'[s].pc = "end_find" /\ call'[s].op = "timer"
    BY <1>5, <2>1, GotoFields DEF Shape, At
  <2>3. QED BY <2>1, <2>2 DEF Watched, Watcher, Entitled
<1>6. CASE Tick \/ \E m \in Limits : SetLimit(m)
  <2>1. UNCHANGED <<row, timers, call, faults>> BY <1>6 DEF Tick, SetLimit
  <2>2. Pressing BY <2>1 DEF Pressing, row
  <2>3. Armed => Armed' BY <2>1 DEF Armed
  <2>4. \A p \in Procs : Watcher(p) => Watcher(p)' BY <2>1 DEF Watcher, Entitled
  <2>5. QED BY <1>1, <2>2, <2>3, <2>4 DEF Watched
<1>7. ASSUME \/ \E s \in Servers : Crash(s)
             \/ \E c \in Calls : AccessFails(c)
      PROVE  FALSE
  BY <1>7 DEF Crash, AccessFails, Pressing, TypeOK
<1>8. ASSUME NEW c \in Calls, ConsoleStep(c) PROVE Watched'
  <2>1. UNCHANGED <<status, endedAt, faults, timers>>
    BY <1>8, ConsoleMoves DEF Pressing
  <2>2. Watched BY <1>1, <2>1 DEF Pressing
  <2>3. c \in Procs /\ ~Watcher(c) BY <1>8, ConsoleMoves DEF Procs, Watcher
  <2>4. QED BY <1>8, <2>1, <2>2, <2>3, GotoWatched, ConsoleMoves
<1>9. QED BY <1>2, <1>3, <1>4, <1>5, <1>6, <1>7, <1>8 DEF Next

-----------------------------------------------------------------------------
(* The inductive invariant and what follows from it. *)

IInv == TypeOK /\ CallShape /\ RowConsistent /\ LimitWatched

(* The inductive invariant holds initially. *)
LEMMA InitIInv == Init => IInv
<1> SUFFICES ASSUME Init PROVE IInv OBVIOUS
<1>1. TypeOK BY InitType
<1>2. \A p \in Procs : /\ call[p].pc = "idle"
                       /\ p \in Servers => call[p].op = "timer"
                       /\ p \notin Servers => call[p].op \in AllOps
  <2>1. PICK f \in [Calls -> NewCalls] :
          call = [p \in Procs |-> IF p \in Servers THEN NewCall("timer", Host, p) ELSE f[p]]
    BY DEF Init
  <2>2. \A n \in NewCalls : n.pc = "idle" /\ n.op \in AllOps
    BY MeetingAssumption DEF MeetingAssumption, NewCalls, NewCall, AllOps
  <2>3. QED BY <2>1, <2>2 DEF Procs, NewCall
<1>3. CallShape BY <1>2 DEF CallShape, Shape, At
<1>4. RowConsistent BY <1>2 DEF Init, RowConsistent, NoTime, Procs
<1>5. LimitWatched BY DEF Init, LimitWatched
<1>6. QED BY <1>1, <1>3, <1>4, <1>5 DEF IInv

(* The inductive invariant: types, the shape of the calls and their        *)
(* snapshots, the row and its watchers hold in every state.                *)
THEOREM Invariance == Spec => []IInv
<1>1. IInv /\ [Next]_vars => IInv'
  <2> SUFFICES ASSUME IInv, [Next]_vars PROVE IInv' OBVIOUS
  <2>1. TypeOK'
    <3>1. CASE UNCHANGED vars BY <3>1 DEF IInv, TypeOK, vars, row
    <3>2. CASE Next BY <3>2, CallStepType, ConsoleStepType, EndStepType, EnvironmentType DEF IInv, Next
    <3>3. QED BY <3>1, <3>2
  <2>2. CallShape' BY NextShape DEF IInv
  <2>3. RowConsistent' BY <2>2, NextRow DEF IInv
  <2>4. LimitWatched' BY NextWatched DEF IInv
  <2>5. QED BY <2>1, <2>2, <2>3, <2>4 DEF IInv
<1>2. QED BY InitIInv, <1>1, PTL DEF Spec

(* The row's timestamps always agree with its status, and whoever join()   *)
(* let in is in a meeting that was started.                                *)
THEOREM RowIsConsistent == Spec => []RowConsistent
BY Invariance, PTL DEF IInv

(* Without failures and with a limit always in force, an active meeting    *)
(* never loses its last watcher.                                           *)
THEOREM AlwaysWatched == Spec => []LimitWatched
BY Invariance, PTL DEF IInv

-----------------------------------------------------------------------------
(* The handlers implement MeetingLifecycle.  Every step but three leaves   *)
(* the status alone and adds nobody to the pending joins.                  *)

(* The initial states map to initial states of the lifecycle. *)
LEMMA InitLifecycle == Init => Lifecycle!Init
<1> SUFFICES ASSUME Init PROVE Lifecycle!Init OBVIOUS
<1>1. \A c \in Calls : call[c].pc = "idle"
  <2>1. PICK f \in [Calls -> NewCalls] :
          call = [p \in Procs |-> IF p \in Servers THEN NewCall("timer", Host, p) ELSE f[p]]
    BY DEF Init
  <2>2. \A n \in NewCalls : n.pc = "idle" BY DEF NewCalls, NewCall
  <2>3. QED BY <2>1, <2>2, MeetingAssumption DEF Procs, NewCall, MeetingAssumption
<1>2. QED BY <1>1 DEF Init, Lifecycle!Init, Pending

(* A step that moves one call and makes no new pending join. *)
LEMMA PendingShrinks ==
  ASSUME NEW p, \A q \in Procs \ {p} : call'[q] = call[q], p \in Pending' => p \in Pending
  PROVE  Pending' \subseteq Pending
BY DEF Pending, Procs

(* A call that moves past its snapshot owes the lifecycle nothing more. *)
LEMMA GotoPending ==
  ASSUME TypeOK, NEW p \in Procs, NEW pc, Goto(p, pc), pc \notin {"found", "upsert", "start"}
  PROVE  Pending' \subseteq Pending
<1>1. call'[p].pc = pc /\ \A q \in Procs \ {p} : call'[q] = call[q] BY GotoFields
<1>2. p \notin Pending' BY <1>1 DEF Pending
<1>3. QED BY <1>1, <1>2, PendingShrinks

(* A step of a call that does not start the meeting is an arrival or a     *)
(* stutter of the lifecycle.                                               *)
LEMMA CallStepPending ==
  ASSUME IInv, NEW c \in Calls, CallStep(c), ~MarkStarted(c)
  PROVE  UNCHANGED status /\ (Pending' \subseteq Pending \/ Lifecycle!Arrive(c))
<1> USE DEF IInv
<1>0. c \in Procs /\ Shape(c) BY DEF CallShape, Procs
<1> USE <1>0
<1>1. UNCHANGED status
  <2>1. UNCHANGED row
    BY DEF CallStep, Begin, Find, JoinFound, GuestFound, TokenFound, LeaveFound, WebhookFound,
           TokenRefind, ReadLimit, ApplyLimit, Upsert, MarkLeft
  <2>2. QED BY <2>1 DEF row
<1>2. CASE Find(c)
  <2>1. /\ \A q \in Procs \ {c} : call'[q] = call[q]
        /\ call'[c].pc = "found" /\ call'[c].op = call[c].op /\ call'[c].seen = status
    BY <1>2 DEF Find, TypeOK, CallRecord
  <2>2. CASE status = "WAITING" /\ call[c].op = "join"
    <3>1. Pending' = Pending \cup {c} BY <2>1, <2>2 DEF Pending, Procs
    <3>2. QED BY <1>1, <2>2, <3>1 DEF Lifecycle!Arrive
  <2>3. CASE ~(status = "WAITING" /\ call[c].op = "join")
    BY <1>1, <2>1, <2>3, PendingShrinks DEF Pending
  <2>4. QED BY <2>2, <2>3
<1>3. CASE JoinFound(c)
  <2>1. CASE Goto(c, "rejected")
    BY <1>1, <2>1, GotoPending
  <2>2. CASE EnforceLimit(c, "upsert")
    <3>1. call[c].pc = "found" /\ call[c].op = "join" BY <1>3 DEF JoinFound
    <3>2. c \in Pending' => c \in Pending BY <2>2, <3>1, EnforceLimitFields DEF Pending
    <3>3. QED BY <1>1, <2>2, <3>2, EnforceLimitFields, PendingShrinks
  <2>3. QED BY <1>3, <2>1, <2>2 DEF JoinFound
<1>4. CASE GuestFound(c) \/ TokenFound(c)
  <2>1. call[c].op # "join" BY <1>4 DEF GuestFound, TokenFound
  <2>2. \/ Goto(c, "rejected")
        \/ \E next : EnforceLimit(c, next)
    BY <1>4 DEF GuestFound, TokenFound
  <2>3. call'[c].op = call[c].op /\ \A q \in Procs \ {c} : call'[q] = call[q]
    BY <2>2, GotoFields, EnforceLimitFields
  <2>4. QED BY <1>1, <2>1, <2>3, PendingShrinks DEF Pending
<1>5. CASE Begin(c) \/ TokenRefind(c) \/ LeaveFound(c) \/ WebhookFound(c) \/ MarkLeft(c)
  <2>1. PICK pc : Goto(c, pc) /\ pc \notin {"found", "upsert", "start"}
    BY <1>5 DEF Begin, TokenRefind, LeaveFound, WebhookFound, MarkLeft
  <2>2. QED BY <1>1, <2>1, GotoPending
<1>6. CASE ReadLimit(c)
  <2>1. /\ \A q \in Procs \ {c} : call'[q] = call[q]
        /\ call'[c].pc = "limited"
    BY <1>6 DEF ReadLimit, TypeOK, CallRecord
  <2>2. QED BY <1>1, <2>1, PendingShrinks DEF Pending
<1>7. CASE ApplyLimit(c)
  <2>1. PICK pc : Goto(c, pc) BY <1>7 DEF ApplyLimit
  <2>2. call[c].seen = "ACTIVE" BY <1>7 DEF ApplyLimit, Shape, At
  <2>3. QED BY <1>1, <2>1, <2>2, GotoFields, PendingShrinks DEF Pending
<1>8. CASE Upsert(c)
  <2>1. /\ \A q \in Procs \ {c} : call'[q] = call[q]
        /\ call'[c].op = call[c].op /\ call'[c].seen = call[c].seen
        /\ call[c].pc = "upsert"
    BY <1>8 DEF Upsert, TypeOK, CallRecord
  <2>2. QED BY <1>1, <2>1, PendingShrinks DEF Pending
<1>9. QED BY <1>2, <1>3, <1>4, <1>5, <1>6, <1>7, <1>8 DEF CallStep

(* Every step of the handlers is a step of the lifecycle, or none. *)
LEMMA LifecycleStep ==
  ASSUME IInv, [Next]_vars
  PROVE  [Lifecycle!Next]_(Lifecycle!vars)
<1> USE DEF IInv
<1>1. CASE Pending' \subseteq Pending /\ UNCHANGED status
  BY <1>1 DEF Lifecycle!Next, Lifecycle!Abandon
<1>2. CASE UNCHANGED vars
  BY <1>1, <1>2 DEF vars, row, Pending
<1>3. ASSUME NEW c \in Calls, CallStep(c) PROVE Lifecycle!Next
  <2>1. CASE MarkStarted(c)
    <3>1. c \in Procs /\ Shape(c) BY DEF CallShape, Procs
    <3>2. c \in Pending BY <2>1, <3>1 DEF MarkStarted, Pending, Shape, At
    <3>3. /\ \A q \in Procs \ {c} : call'[q] = call[q]
          /\ call'[c].pc = "limit"
      BY <2>1, <3>1 DEF MarkStarted, TypeOK, CallRecord
    <3>4. Pending' = Pending \ {c} BY <3>3 DEF Pending, Procs
    <3>5. QED BY <2>1, <3>2, <3>4 DEF MarkStarted, Lifecycle!Next, Lifecycle!Start
  <2>2. CASE ~MarkStarted(c)
    BY <1>3, <2>2, CallStepPending DEF Lifecycle!Next, Lifecycle!Abandon
  <2>3. QED BY <2>1, <2>2
<1>4. ASSUME NEW p \in Procs, EndStep(p) PROVE Lifecycle!Next
  <2>1. CASE MarkEnded(p)
    <3>1. /\ \A q \in Procs \ {p} : call'[q] = call[q]
          /\ call'[p].pc = "announce" /\ call[p].pc = "end_write"
      BY <2>1, GotoFields DEF MarkEnded
    <3>2. Pending' = Pending BY <3>1 DEF Pending, Procs
    <3>3. QED BY <2>1, <3>2 DEF MarkEnded, Lifecycle!Next, Lifecycle!End
  <2>2. CASE EndFind(p)
    <3>1. /\ \A q \in Procs \ {p} : call'[q] = call[q]
          /\ call'[p].pc = "end_found" /\ UNCHANGED status
      BY <2>2 DEF EndFind, TypeOK, CallRecord, row
    <3>2. QED BY <3>1, PendingShrinks DEF Pending, Lifecycle!Next, Lifecycle!Abandon
  <2>3. CASE EndFound(p) \/ Announce(p)
    <3>1. /\ UNCHANGED status
          /\ \E pc : Goto(p, pc) /\ pc \notin {"found", "upsert", "start"}
      BY <2>3 DEF EndFound, Announce, Return, row
    <3>2. QED BY <3>1, GotoPending DEF Lifecycle!Next, Lifecycle!Abandon
  <2>4. QED BY <1>4, <2>1, <2>2, <2>3 DEF EndStep
<1>5. ASSUME NEW p \in Procs, UNCHANGED status,
             \E pc : Goto(p, pc) /\ pc \notin {"found", "upsert", "start"}
      PROVE  Lifecycle!Next
  BY <1>5, GotoPending DEF Lifecycle!Next, Lifecycle!Abandon
<1>6. ASSUME NEW s \in Servers, TimerFire(s) PROVE Lifecycle!Next
  BY <1>5, <1>6 DEF TimerFire, Procs, row
<1>7. ASSUME NEW c \in Calls, AccessFails(c) PROVE Lifecycle!Next
  BY <1>5, <1>7 DEF AccessFails, Procs, row
<1>8. ASSUME NEW s \in Servers, Crash(s) PROVE Lifecycle!Next
  <2>1. \A q \in Procs : call'[q] = call[q] \/ call'[q].pc \in {"idle", "lost"}
    BY <1>8, CallFields DEF Crash, CallRecord
  <2>2. Pending' \subseteq Pending BY <2>1 DEF Pending, Procs
  <2>3. QED BY <1>8, <2>2 DEF Crash, row, Lifecycle!Next, Lifecycle!Abandon
<1>9. CASE Tick \/ \E m \in Limits : SetLimit(m)
  BY <1>1, <1>9 DEF Tick, SetLimit, row, Pending
<1>10. ASSUME NEW c \in Calls, ConsoleStep(c) PROVE Lifecycle!Next
  <2>1. c \in Procs /\ Shape(c) BY DEF CallShape, Procs
  <2>2. CASE UNCHANGED <<status, endedAt>>
    BY <1>5, <1>10, <2>1, <2>2, ConsoleMoves
  <2>3. CASE /\ status' = "ENDED" /\ call[c].pc \in {"force_write", "bulk_write"}
             /\ Goto(c, "ended")
    <3>1. /\ \A q \in Procs \ {c} : call'[q] = call[q]
          /\ call'[c].pc = "ended"
      BY <2>1, <2>3, GotoFields
    <3>2. Pending' = Pending BY <2>1, <2>3, <3>1 DEF Pending, Procs
    <3>3. QED BY <2>3, <3>2 DEF Lifecycle!Next, Lifecycle!End
  <2>4. QED BY <1>10, <2>2, <2>3, ConsoleMoves
<1>11. QED BY <1>2, <1>3, <1>4, <1>6, <1>7, <1>8, <1>9, <1>10 DEF Next

(* The meeting handlers implement the lifecycle the component promises.    *)
THEOREM Refinement == Spec => ImplementsLifecycle
<1>1. IInv /\ [Next]_vars => [Lifecycle!Next]_(Lifecycle!vars) BY LifecycleStep
<1>2. QED BY InitLifecycle, Invariance, <1>1, PTL
          DEF Spec, ImplementsLifecycle, Lifecycle!Spec

(* A meeting that ended with no first join pending is never active again.  *)
THEOREM NeverAgain == Spec => OverForGood
<1>1. IInv /\ [Next]_vars => [Lifecycle!Over => Lifecycle!Over']_vars
  <2> SUFFICES ASSUME IInv, [Next]_vars, Lifecycle!Over PROVE Lifecycle!Over' OBVIOUS
  <2>1. [Lifecycle!Next]_(Lifecycle!vars) BY LifecycleStep
  <2>2. QED
    BY <2>1 DEF Lifecycle!Next, Lifecycle!Over, Lifecycle!vars, Lifecycle!Arrive,
                Lifecycle!Start, Lifecycle!Abandon, Lifecycle!End
<1>2. QED BY Invariance, <1>1, PTL DEF Spec, OverForGood

-----------------------------------------------------------------------------
(***************************************************************************)
(* The clock: how long a timer may run, who may end the meeting and who is *)
(* let in past the limit.                                                  *)
(***************************************************************************)

(* No call holds a start time later than the one in the row. *)
SnapshotsOld == \A p \in Procs : call[p].seenStart <= startedAt

(* A call on its way to the end of the meeting has the right to be there. *)
EndRight(p) ==
  /\ call[p].pc = "end_write" => Entitled(p)
  /\ call[p].pc \in {"end_find", "end_found", "end_write"}
       /\ call[p].op \in {"join", "guest", "token"} =>
     call[p].max # NoLimit /\ Deadline(p) <= now

TInv == IInv /\ SnapshotsOld /\ TimerWithinLimit /\ \A p \in Procs : EndRight(p)

-----------------------------------------------------------------------------
(* What the steps of the program do to the row, the clock, the snapshots   *)
(* and the timers.                                                         *)

(* The instants and durations are numbers. *)
LEMMA TimeTypes ==
  ASSUME TypeOK
  PROVE  /\ startedAt \in Int /\ now \in Nat /\ NoTime \in Int
         /\ \A p \in Procs : /\ call[p].seenStart \in Int /\ call[p].max \in Nat
                             /\ Deadline(p) \in Int
         /\ \A s \in Servers : timers[s] \in Int
BY MeetingAssumption, CallFields DEF MeetingAssumption, TypeOK, NoTime, Deadline

(* Time and the start of the meeting only move forward. *)
LEMMA StartGrows ==
  ASSUME TypeOK, RowConsistent, [Next]_vars
  PROVE  startedAt <= startedAt' /\ now <= now' /\ startedAt' \in Int /\ now' \in Int
<1>1. startedAt \in Int /\ now \in Int /\ startedAt <= now
  BY TimeTypes DEF RowConsistent
<1> SUFFICES \/ UNCHANGED <<startedAt, now>>
             \/ startedAt' = now /\ now' = now
             \/ startedAt' = startedAt /\ now' = now + 1
  BY <1>1
<1>2. ASSUME NEW c \in Calls, CallStep(c)
      PROVE  UNCHANGED <<startedAt, now>> \/ (startedAt' = now /\ now' = now)
  <2>1. CASE MarkStarted(c) BY <2>1 DEF MarkStarted
  <2>2. CASE ~MarkStarted(c)
    <3>1. UNCHANGED <<row, now>>
      BY <1>2, <2>2
      DEF CallStep, Begin, Find, JoinFound, GuestFound, TokenFound, LeaveFound, WebhookFound,
          TokenRefind, ReadLimit, ApplyLimit, Upsert, MarkLeft
    <3>2. QED BY <3>1 DEF row
  <2>3. QED BY <2>1, <2>2
<1>3. ASSUME NEW p \in Procs, EndStep(p) PROVE UNCHANGED <<startedAt, now>>
  BY <1>3 DEF EndStep, EndFind, EndFound, MarkEnded, Announce, row
<1>4. CASE Tick BY <1>4 DEF Tick, row
<1>5. ASSUME \/ \E s \in Servers : TimerFire(s) \/ Crash(s)
             \/ \E m \in Limits : SetLimit(m)
             \/ \E c \in Calls : AccessFails(c)
      PROVE  UNCHANGED <<startedAt, now>>
  BY <1>5 DEF TimerFire, Crash, SetLimit, AccessFails, row
<1>6. CASE UNCHANGED vars BY <1>6 DEF vars, row
<1>7. ASSUME NEW c \in Calls, ConsoleStep(c) PROVE UNCHANGED <<startedAt, now>>
  BY <1>7, ConsoleMoves
<1>8. QED BY <1>2, <1>3, <1>4, <1>5, <1>6, <1>7 DEF Next

(* A call's copy of the start time is the one it had, or the row's. *)
LEMMA SeenStartStep ==
  ASSUME TypeOK, [Next]_vars, NEW q \in Procs
  PROVE  call'[q].seenStart \in {call[q].seenStart, startedAt, startedAt'}
<1>0. Calls \subseteq Procs /\ Servers \subseteq Procs BY DEF Procs
<1>1. ASSUME NEW p \in Procs, NEW pc, Goto(p, pc)
      PROVE  call'[q].seenStart = call[q].seenStart
  BY <1>1, GotoFields
<1>2. ASSUME NEW p \in Procs, NEW next, EnforceLimit(p, next)
      PROVE  call'[q].seenStart = call[q].seenStart
  <2>1. CASE Goto(p, next) BY <1>1, <2>1
  <2>2. CASE call' = [call EXCEPT ![p] = [@ EXCEPT !.pc = "limit", !.after = next]]
    BY <2>2, CallFields DEF TypeOK, CallRecord
  <2>3. QED BY <1>2, <2>1, <2>2 DEF EnforceLimit
<1>3. ASSUME NEW c \in Calls, CallStep(c)
      PROVE  call'[q].seenStart \in {call[q].seenStart, startedAt, startedAt'}
  <2>1. CASE Find(c) BY <2>1, <1>0 DEF Find, TypeOK, CallRecord
  <2>2. CASE MarkStarted(c) BY <2>2, <1>0 DEF MarkStarted, TypeOK, CallRecord
  <2>3. CASE ReadLimit(c) \/ Upsert(c)
    <3>1. /\ \A r \in Procs \ {c} : call'[r] = call[r]
          /\ call'[c].seenStart = call[c].seenStart
      <4>1. CASE ReadLimit(c) BY <4>1, <1>0 DEF ReadLimit, TypeOK, CallRecord
      <4>2. CASE Upsert(c) BY <4>2, <1>0 DEF Upsert, TypeOK, CallRecord
      <4>3. QED BY <2>3, <4>1, <4>2
    <3>2. QED BY <3>1
  <2>4. CASE JoinFound(c) \/ GuestFound(c) \/ TokenFound(c)
    <3>1. Goto(c, "rejected") \/ \E next : EnforceLimit(c, next)
      BY <2>4 DEF JoinFound, GuestFound, TokenFound
    <3>2. QED BY <1>0, <1>1, <1>2, <3>1
  <2>5. CASE Begin(c) \/ TokenRefind(c) \/ LeaveFound(c) \/ WebhookFound(c) \/ MarkLeft(c)
             \/ ApplyLimit(c)
    <3>1. \E pc : Goto(c, pc)
      BY <2>5 DEF Begin, TokenRefind, LeaveFound, WebhookFound, MarkLeft, ApplyLimit
    <3>2. QED BY <1>0, <1>1, <3>1
  <2>6. QED BY <1>3, <2>1, <2>2, <2>3, <2>4, <2>5 DEF CallStep
<1>4. ASSUME NEW p \in Procs, EndStep(p) PROVE call'[q].seenStart = call[q].seenStart
  <2>1. CASE EndFind(p) BY <2>1 DEF EndFind, TypeOK, CallRecord
  <2>2. CASE EndFound(p) \/ MarkEnded(p) \/ Announce(p)
    <3>1. \E pc : Goto(p, pc) BY <2>2 DEF EndFound, MarkEnded, Announce
    <3>2. QED BY <1>1, <3>1
  <2>3. QED BY <1>4, <2>1, <2>2 DEF EndStep
<1>5. ASSUME \/ \E s \in Servers : TimerFire(s)
             \/ \E c \in Calls : AccessFails(c)
      PROVE  call'[q].seenStart = call[q].seenStart
  <2>1. \E p \in Procs : \E pc : Goto(p, pc) BY <1>0, <1>5 DEF TimerFire, AccessFails
  <2>2. QED BY <1>1, <2>1
<1>6. ASSUME NEW s \in Servers, Crash(s) PROVE call'[q].seenStart = call[q].seenStart
  BY <1>6, CallFields DEF Crash, CallRecord
<1>7. CASE Tick \/ (\E m \in Limits : SetLimit(m)) \/ UNCHANGED vars
  BY <1>7 DEF Tick, SetLimit, vars
<1>8. ASSUME NEW c \in Calls, ConsoleStep(c) PROVE call'[q].seenStart = call[q].seenStart
  BY <1>0, <1>1, <1>8, ConsoleMoves
<1>9. QED BY <1>3, <1>4, <1>5, <1>6, <1>7, <1>8 DEF Next

(* A timer is armed only by ApplyLimit, with the deadline it computed. *)
LEMMA TimerStep ==
  ASSUME TypeOK, CallShape, [Next]_vars, NEW s \in Servers
  PROVE  \/ timers'[s] = timers[s]
         \/ timers'[s] = NoTime
         \/ \E c \in Calls : /\ timers'[s] = Deadline(c) /\ startedAt # NoTime
                             /\ call[c].max \in Limits \ {NoLimit}
<1> DEFINE Kept == timers'[s] = timers[s] \/ timers'[s] = NoTime
<1> USE DEF TypeOK
<1>1. ASSUME NEW p, NEW next, EnforceLimit(p, next) PROVE Kept
  BY <1>1 DEF EnforceLimit
<1>2. ASSUME NEW c \in Calls, CallStep(c), ~ApplyLimit(c) PROVE Kept
  <2>1. CASE JoinFound(c) \/ GuestFound(c) \/ TokenFound(c)
    <3>1. UNCHANGED timers \/ \E next : EnforceLimit(c, next)
      BY <2>1 DEF JoinFound, GuestFound, TokenFound
    <3>2. QED BY <1>1, <3>1
  <2>2. CASE ~(JoinFound(c) \/ GuestFound(c) \/ TokenFound(c))
    <3>1. UNCHANGED timers
      BY <1>2, <2>2 DEF CallStep, Begin, Find, LeaveFound, WebhookFound, TokenRefind, ReadLimit,
                        Upsert, MarkStarted, MarkLeft
    <3>2. QED BY <3>1
  <2>3. QED BY <2>1, <2>2
<1>3. ASSUME NEW c \in Calls, ApplyLimit(c)
      PROVE  Kept \/ /\ timers'[s] = Deadline(c) /\ startedAt # NoTime
                     /\ call[c].max \in Limits \ {NoLimit}
  <2>1. startedAt # NoTime /\ call[c].max \in Limits
    BY <1>3 DEF ApplyLimit, CallShape, Shape, At, Procs
  <2>2. Kept \/ (call[c].max # NoLimit /\ timers'[s] = Deadline(c))
    BY <1>3 DEF ApplyLimit
  <2>3. QED BY <2>1, <2>2
<1>4. ASSUME NEW p \in Procs, EndStep(p) PROVE Kept
  BY <1>4 DEF EndStep, EndFind, EndFound, MarkEnded, Announce
<1>5. ASSUME \/ \E r \in Servers : TimerFire(r) \/ Crash(r)
             \/ Tick \/ \E m \in Limits : SetLimit(m)
             \/ \E c \in Calls : AccessFails(c)
             \/ UNCHANGED vars
      PROVE  Kept
  BY <1>5 DEF TimerFire, Crash, Tick, SetLimit, AccessFails, vars
<1>6. ASSUME NEW c \in Calls, ConsoleStep(c) PROVE Kept
  BY <1>6, ConsoleMoves
<1>7. QED BY <1>2, <1>3, <1>4, <1>5, <1>6 DEF Next

-----------------------------------------------------------------------------
(* Who runs end(). *)

(* A call that does not move, or that leaves end(), keeps its right. *)
LEMMA EndRightFrame ==
  ASSUME TypeOK, now <= now', now' \in Int, NEW q \in Procs, EndRight(q),
         \/ call'[q] = call[q]
         \/ call'[q].pc \notin {"end_find", "end_found", "end_write"}
  PROVE  EndRight(q)'
<1>1. CASE call'[q] = call[q]
  <2>1. Entitled(q) => Entitled(q)' BY <1>1 DEF Entitled
  <2>2. Deadline(q)' = Deadline(q) BY <1>1 DEF Deadline
  <2>3. Deadline(q) <= now => Deadline(q) <= now' BY TimeTypes
  <2>4. QED BY <1>1, <2>1, <2>2, <2>3 DEF EndRight
<1>2. CASE call'[q].pc \notin {"end_find", "end_found", "end_write"}
  BY <1>2 DEF EndRight
<1>3. QED BY <1>1, <1>2

(* A step to another point of end() keeps what the call read of the limit. *)
LEMMA EndRightMove ==
  ASSUME TypeOK, now' = now, NEW q \in Procs, EndRight(q),
         call[q].pc \in {"end_find", "end_found", "end_write"},
         call'[q].op = call[q].op, call'[q].actor = call[q].actor,
         call'[q].max = call[q].max, call'[q].seenStart = call[q].seenStart,
         call'[q].pc = "end_write" => Entitled(q)
  PROVE  EndRight(q)'
<1>1. Entitled(q) => Entitled(q)' BY DEF Entitled
<1>2. Deadline(q)' = Deadline(q) BY DEF Deadline
<1>3. QED BY <1>1, <1>2 DEF EndRight

(* A call that gets to end_find now has the right to be there. *)
LEMMA EndRightEnter ==
  ASSUME TypeOK, now' = now, NEW q \in Procs, Goto(q, "end_find"),
         call[q].op \in {"join", "guest", "token"} =>
           call[q].max # NoLimit /\ Deadline(q) <= now
  PROVE  EndRight(q)'
<1>1. /\ call'[q].pc = "end_find" /\ call'[q].op = call[q].op
      /\ call'[q].max = call[q].max /\ call'[q].seenStart = call[q].seenStart
  BY GotoFields
<1>2. Deadline(q)' = Deadline(q) BY <1>1 DEF Deadline
<1>3. QED BY <1>1, <1>2 DEF EndRight

(* Every step keeps the right to end of those on their way to the end. *)
LEMMA NextEndRight ==
  ASSUME TypeOK, RowConsistent, CallShape, \A p \in Procs : EndRight(p), [Next]_vars
  PROVE  \A p \in Procs : EndRight(p)'
<1>0. Calls \subseteq Procs /\ Servers \subseteq Procs BY DEF Procs
<1>time. now <= now' /\ now' \in Int BY StartGrows
<1> USE <1>0, <1>time
<1>1. ASSUME NEW p \in Procs, NEW pc, Goto(p, pc),
             pc \notin {"end_find", "end_found", "end_write"}
      PROVE  \A q \in Procs : EndRight(q)'
  <2>1. call'[p].pc = pc /\ \A q \in Procs \ {p} : call'[q] = call[q]
    BY <1>1, GotoFields
  <2>2. QED BY <1>1, <2>1, EndRightFrame
<1>2. ASSUME NEW p \in Procs, Goto(p, "end_find"), now' = now,
             call[p].op \in {"join", "guest", "token"} =>
               call[p].max # NoLimit /\ Deadline(p) <= now
      PROVE  \A q \in Procs : EndRight(q)'
  <2>1. EndRight(p)' BY <1>2, EndRightEnter
  <2>2. \A q \in Procs \ {p} : EndRight(q)' BY <1>2, GotoFields, EndRightFrame
  <2>3. QED BY <2>1, <2>2
<1>3. ASSUME NEW c \in Calls, CallStep(c) PROVE \A q \in Procs : EndRight(q)'
  <2>0. c \in Procs /\ Shape(c) BY DEF CallShape
  <2>1. CASE Begin(c)
    <3>1. now' = now /\ (call[c].op # "end" => Goto(c, "find") \/ Goto(c, "bulk_write"))
          /\ (call[c].op = "end" => Goto(c, "end_find"))
      BY <2>1 DEF Begin
    <3>2. CASE call[c].op = "end" BY <1>2, <2>0, <3>1, <3>2
    <3>3. CASE call[c].op # "end" BY <1>1, <2>0, <3>1, <3>3
    <3>4. QED BY <3>2, <3>3
  <2>2. CASE Find(c) \/ ReadLimit(c) \/ Upsert(c) \/ MarkStarted(c)
    <3>1. /\ \A q \in Procs \ {c} : call'[q] = call[q]
          /\ call'[c].pc \in {"found", "limited", "start", "limit"}
      <4>1. CASE Find(c) BY <2>0, <4>1 DEF Find, TypeOK, CallRecord
      <4>2. CASE ReadLimit(c) BY <2>0, <4>2 DEF ReadLimit, TypeOK, CallRecord
      <4>3. CASE Upsert(c) BY <2>0, <4>3 DEF Upsert, TypeOK, CallRecord
      <4>4. CASE MarkStarted(c) BY <2>0, <4>4 DEF MarkStarted, TypeOK, CallRecord
      <4>5. QED BY <2>2, <4>1, <4>2, <4>3, <4>4
    <3>2. QED BY <3>1, EndRightFrame
  <2>3. CASE JoinFound(c) \/ GuestFound(c) \/ TokenFound(c)
    <3>1. \/ Goto(c, "rejected")
          \/ \E next \in {"upsert", "ok", "refind"} : EnforceLimit(c, next)
      BY <2>3 DEF JoinFound, GuestFound, TokenFound
    <3>2. CASE Goto(c, "rejected") BY <1>1, <2>0, <3>2
    <3>3. CASE \E next \in {"upsert", "ok", "refind"} : EnforceLimit(c, next)
      <4>1. /\ \A q \in Procs \ {c} : call'[q] = call[q]
            /\ call'[c].pc \in {"limit", "upsert", "ok", "refind"}
        BY <2>0, <3>3, EnforceLimitFields
      <4>2. QED BY <4>1, EndRightFrame
    <3>4. QED BY <3>1, <3>2, <3>3
  <2>4. CASE TokenRefind(c) \/ LeaveFound(c) \/ MarkLeft(c)
    <3>1. \E pc : Goto(c, pc) /\ pc \notin {"end_find", "end_found", "end_write"}
      BY <2>4 DEF TokenRefind, LeaveFound, MarkLeft
    <3>2. QED BY <1>1, <2>0, <3>1
  <2>5. CASE WebhookFound(c)
    <3>1. now' = now /\ call[c].op = "webhook" /\ (Goto(c, "ok") \/ Goto(c, "end_find"))
      BY <2>5 DEF WebhookFound
    <3>2. QED BY <1>1, <1>2, <2>0, <3>1
  <2>6. CASE ApplyLimit(c)
    <3>1. now' = now BY <2>6 DEF ApplyLimit
    <3>2. CASE Goto(c, "end_find") /\ call[c].max # NoLimit /\ Deadline(c) <= now
      BY <1>2, <2>0, <3>1, <3>2
    <3>3. CASE Goto(c, call[c].after)
      <4>1. call[c].after \notin {"end_find", "end_found", "end_write"}
        BY <2>0, CallFields
      <4>2. QED BY <1>1, <2>0, <3>3, <4>1
    <3>4. QED BY <2>6, <3>2, <3>3 DEF ApplyLimit
  <2>7. QED BY <1>3, <2>1, <2>2, <2>3, <2>4, <2>5, <2>6 DEF CallStep
<1>4. ASSUME NEW p \in Procs, EndStep(p) PROVE \A q \in Procs : EndRight(q)'
  <2>1. CASE EndFind(p)
    <3>1. /\ \A q \in Procs \ {p} : call'[q] = call[q]
          /\ call'[p].pc = "end_found" /\ call[p].pc = "end_find" /\ now' = now
          /\ call'[p].op = call[p].op /\ call'[p].actor = call[p].actor
          /\ call'[p].max = call[p].max /\ call'[p].seenStart = call[p].seenStart
      BY <2>1 DEF EndFind, TypeOK, CallRecord
    <3>2. QED BY <3>1, EndRightFrame, EndRightMove
  <2>2. CASE EndFound(p)
    <3>1. \E pc : /\ Goto(p, pc)
                  /\ \/ pc \notin {"end_find", "end_found", "end_write"}
                     \/ pc = "end_write" /\ Entitled(p)
      BY <2>2 DEF EndFound, Return
    <3>2. CASE Goto(p, "end_write") /\ Entitled(p)
      <4>1. call[p].pc = "end_found" /\ now' = now BY <2>2 DEF EndFound
      <4>2. /\ \A q \in Procs \ {p} : call'[q] = call[q]
            /\ call'[p].op = call[p].op /\ call'[p].actor = call[p].actor
            /\ call'[p].max = call[p].max /\ call'[p].seenStart = call[p].seenStart
        BY <3>2, GotoFields
      <4>3. EndRight(p)' BY <3>2, <4>1, <4>2, EndRightMove
      <4>4. QED BY <4>2, <4>3, EndRightFrame
    <3>3. QED BY <1>1, <3>1, <3>2
  <2>3. CASE MarkEnded(p) \/ Announce(p)
    <3>1. \E pc : Goto(p, pc) /\ pc \notin {"end_find", "end_found", "end_write"}
      BY <2>3 DEF MarkEnded, Announce, Return
    <3>2. QED BY <1>1, <3>1
  <2>4. QED BY <1>4, <2>1, <2>2, <2>3 DEF EndStep
<1>5. ASSUME NEW s \in Servers, TimerFire(s) PROVE \A q \in Procs : EndRight(q)'
  <2>1. now' = now /\ Goto(s, "end_find") /\ call[s].op = "timer"
    BY <1>5 DEF TimerFire, CallShape, Shape, At
  <2>2. QED BY <1>2, <2>1
<1>6. ASSUME NEW c \in Calls, AccessFails(c) PROVE \A q \in Procs : EndRight(q)'
  BY <1>1, <1>6 DEF AccessFails
<1>7. ASSUME NEW s \in Servers, Crash(s) PROVE \A q \in Procs : EndRight(q)'
  <2>1. \A q \in Procs : call'[q] = call[q] \/ call'[q].pc \in {"idle", "lost"}
    BY <1>7, CallFields DEF Crash, CallRecord
  <2>2. QED BY <2>1, EndRightFrame
<1>8. CASE Tick \/ (\E m \in Limits : SetLimit(m)) \/ UNCHANGED vars
  BY <1>8, EndRightFrame DEF Tick, SetLimit, vars
<1>9. ASSUME NEW c \in Calls, ConsoleStep(c) PROVE \A q \in Procs : EndRight(q)'
  BY <1>1, <1>9, ConsoleMoves
<1>10. QED BY <1>3, <1>4, <1>5, <1>6, <1>7, <1>8, <1>9 DEF Next

-----------------------------------------------------------------------------
(* The inductive invariant with the clock, and what follows from it. *)

(* The invariant with the clock holds initially. *)
LEMMA InitTInv == Init => TInv
<1> SUFFICES ASSUME Init PROVE TInv OBVIOUS
<1>1. IInv BY InitIInv
<1>2. \A p \in Procs : call[p].pc = "idle" /\ call[p].seenStart = NoTime
  <2>1. PICK f \in [Calls -> NewCalls] :
          call = [p \in Procs |-> IF p \in Servers THEN NewCall("timer", Host, p) ELSE f[p]]
    BY DEF Init
  <2>2. \A n \in NewCalls : n.pc = "idle" /\ n.seenStart = NoTime
    BY DEF NewCalls, NewCall
  <2>3. QED BY <2>1, <2>2 DEF Procs, NewCall
<1>3. SnapshotsOld BY <1>2 DEF SnapshotsOld, Init, NoTime
<1>4. TimerWithinLimit BY DEF Init, TimerWithinLimit
<1>5. \A p \in Procs : EndRight(p) BY <1>2 DEF EndRight
<1>6. QED BY <1>1, <1>3, <1>4, <1>5 DEF TInv

(* Every step keeps the armed timers within a limit of the start. *)
LEMMA NextTimer ==
  ASSUME TypeOK, RowConsistent, CallShape, SnapshotsOld, TimerWithinLimit, [Next]_vars
  PROVE  TimerWithinLimit'
<1> SUFFICES ASSUME NEW s \in Servers, timers'[s] # NoTime
             PROVE  /\ startedAt' # NoTime
                    /\ \E m \in Limits \ {NoLimit} : timers'[s] <= startedAt' + m
  BY DEF TimerWithinLimit
<1>1. startedAt <= startedAt' /\ startedAt' \in Int /\ startedAt \in Int /\ Limits \subseteq Int
  BY StartGrows, TimeTypes, MeetingAssumption DEF MeetingAssumption
<1>2. startedAt # NoTime => startedAt' # NoTime BY NextGrows DEF Grows
<1>3. CASE timers'[s] = timers[s]
  <2>1. startedAt # NoTime BY <1>3 DEF TimerWithinLimit
  <2>2. PICK m \in Limits \ {NoLimit} : timers[s] <= startedAt + m
    BY <1>3 DEF TimerWithinLimit
  <2>3. timers'[s] <= startedAt' + m BY <1>1, <1>3, <2>2, TimeTypes
  <2>4. QED BY <1>2, <2>1, <2>3
<1>4. CASE \E c \in Calls : /\ timers'[s] = Deadline(c) /\ startedAt # NoTime
                           /\ call[c].max \in Limits \ {NoLimit}
  <2>1. PICK c \in Calls : /\ timers'[s] = Deadline(c) /\ startedAt # NoTime
                          /\ call[c].max \in Limits \ {NoLimit}
    BY <1>4
  <2>2. call[c].seenStart <= startedAt /\ call[c].seenStart \in Int /\ call[c].max \in Int
    BY TimeTypes DEF SnapshotsOld, Procs
  <2>3. timers'[s] <= startedAt' + call[c].max BY <1>1, <2>1, <2>2 DEF Deadline
  <2>4. QED BY <1>2, <2>1, <2>3
<1>5. QED BY <1>3, <1>4, TimerStep

(* The invariant with the clock holds in every state: no snapshot is ahead *)
(* of the row, timers are timely, and whoever is about to end the meeting  *)
(* may.                                                                    *)
THEOREM TimeInvariance == Spec => []TInv
<1>1. TInv /\ IInv' /\ [Next]_vars => TInv'
  <2> SUFFICES ASSUME TInv, IInv', [Next]_vars PROVE TInv' OBVIOUS
  <2> USE DEF TInv, IInv
  <2>1. SnapshotsOld'
    <3> SUFFICES ASSUME NEW p \in Procs PROVE call'[p].seenStart <= startedAt'
      BY DEF SnapshotsOld
    <3>1. call[p].seenStart <= startedAt BY DEF SnapshotsOld
    <3>2. QED BY <3>1, StartGrows, SeenStartStep, TimeTypes
  <2>2. TimerWithinLimit' BY NextTimer
  <2>3. \A p \in Procs : EndRight(p)' BY NextEndRight
  <2>4. QED BY <2>1, <2>2, <2>3
<1>2. QED BY InitTInv, Invariance, <1>1, PTL DEF Spec

(* An armed timer fires within a configured limit of the start time that   *)
(* is now in the row, whichever snapshot it was armed from.                *)
THEOREM TimersAreTimely == Spec => []TimerWithinLimit
BY TimeInvariance, PTL DEF TInv

(* A meeting is ended by whoever wrote ENDED: a handler on its way there   *)
(* with the right to be, or the console.                                   *)
LEMMA EnderStep ==
  ASSUME TInv, [Next]_vars, status' = "ENDED", status # "ENDED"
  PROVE  (\E p \in Procs : MarkEnded(p)) \/ (\E c \in Calls : ConsoleStep(c))
<1>1. ASSUME NEW c \in Calls, CallStep(c) PROVE FALSE
  <2>1. CASE MarkStarted(c) BY <2>1 DEF MarkStarted
  <2>2. CASE ~MarkStarted(c)
    <3>1. UNCHANGED row
      BY <1>1, <2>2
      DEF CallStep, Begin, Find, JoinFound, GuestFound, TokenFound, LeaveFound, WebhookFound,
          TokenRefind, ReadLimit, ApplyLimit, Upsert, MarkLeft
    <3>2. QED BY <3>1 DEF row
  <2>3. QED BY <2>1, <2>2
<1>2. ASSUME NEW p \in Procs, EndStep(p) PROVE MarkEnded(p)
  BY <1>2 DEF EndStep, EndFind, EndFound, Announce, row
<1>3. ASSUME \/ \E s \in Servers : TimerFire(s) \/ Crash(s)
             \/ Tick \/ \E m \in Limits : SetLimit(m)
             \/ \E c \in Calls : AccessFails(c)
             \/ UNCHANGED vars
      PROVE  FALSE
  <2>1. UNCHANGED row BY <1>3 DEF TimerFire, Crash, Tick, SetLimit, AccessFails, vars
  <2>2. QED BY <2>1 DEF row
<1>4. QED BY <1>1, <1>2, <1>3 DEF Next

(* Only the host, the webhook, a timer, a call that found the limit passed *)
(* or an administrator ends the meeting.                                   *)
THEOREM EndsByRight == Spec => EndedByRight
<1> DEFINE ByHandler(p) ==
             /\ call[p].pc = "end_write" /\ call'[p].pc # "end_write"
             /\ Entitled(p)
             /\ call[p].op \in {"join", "guest", "token"} =>
                  call[p].max # NoLimit /\ Deadline(p) <= now
           ByConsole(c) ==
             /\ call[c].op \in {"force_end", "bulk_end"}
             /\ call[c].pc # "ended" /\ call'[c].pc = "ended"
<1>1. ASSUME TInv, [Next]_vars, status' = "ENDED", status # "ENDED"
      PROVE  (\E p \in Procs : ByHandler(p)) \/ (\E c \in Calls : ByConsole(c))
  <2> USE <1>1 DEF TInv, IInv
  <2>1. ASSUME NEW p \in Procs, MarkEnded(p) PROVE ByHandler(p)
    <3>1. call[p].pc = "end_write" /\ Goto(p, "announce") BY <2>1 DEF MarkEnded
    <3>2. call'[p].pc = "announce" BY <3>1, GotoFields
    <3>3. EndRight(p) BY DEF TInv
    <3>4. QED BY <3>1, <3>2, <3>3 DEF EndRight
  <2>2. ASSUME NEW c \in Calls, ConsoleStep(c) PROVE ByConsole(c)
    <3>1. c \in Procs /\ Shape(c) BY DEF CallShape, Procs
    <3>2. call[c].pc \in {"force_write", "bulk_write"} /\ Goto(c, "ended")
      BY <2>2, ConsoleMoves
    <3>3. call'[c].pc = "ended" BY <3>1, <3>2, GotoFields
    <3>4. QED BY <3>1, <3>2, <3>3 DEF Shape, At
  <2>3. QED BY <2>1, <2>2, EnderStep
<1>2. TInv /\ [Next]_vars =>
        [status' = "ENDED" /\ status # "ENDED" =>
           (\E p \in Procs : ByHandler(p)) \/ (\E c \in Calls : ByConsole(c))]_vars
  BY <1>1
<1>3. QED BY TimeInvariance, <1>2, PTL DEF Spec, EndedByRight

(* A call that answers "ok" gets there by a step of its own. *)
LEMMA OkByOwnStep ==
  ASSUME TypeOK, [Next]_vars, NEW c \in Calls, call[c].pc # "ok", call'[c].pc = "ok"
  PROVE  CallStep(c) \/ EndStep(c) \/ ConsoleStep(c)
<1>0. c \in Procs /\ Calls \subseteq Procs /\ Servers \subseteq Procs /\ c \notin Servers
  BY MeetingAssumption DEF Procs, MeetingAssumption
<1>1. ASSUME NEW p \in Procs, NEW pc, Goto(p, pc) PROVE p = c /\ pc = "ok"
  <2>1. call'[p].pc = pc /\ \A q \in Procs \ {p} : call'[q] = call[q] BY <1>1, GotoFields
  <2>2. p = c BY <1>0, <2>1
  <2>3. QED BY <2>1, <2>2
<1>2. ASSUME NEW d \in Calls, CallStep(d) PROVE d = c
  <2>1. CASE Find(d) \/ ReadLimit(d) \/ Upsert(d) \/ MarkStarted(d)
    BY <1>0, <2>1 DEF Find, ReadLimit, Upsert, MarkStarted, TypeOK
  <2>2. CASE JoinFound(d) \/ GuestFound(d) \/ TokenFound(d)
    <3>1. Goto(d, "rejected") \/ \E next : EnforceLimit(d, next)
      BY <2>2 DEF JoinFound, GuestFound, TokenFound
    <3>2. \A q \in Procs \ {d} : call'[q] = call[q]
      BY <1>0, <3>1, GotoFields, EnforceLimitFields
    <3>3. QED BY <1>0, <3>2
  <2>3. CASE Begin(d) \/ TokenRefind(d) \/ LeaveFound(d) \/ WebhookFound(d) \/ MarkLeft(d)
             \/ ApplyLimit(d)
    <3>1. \E pc : Goto(d, pc)
      BY <2>3 DEF Begin, TokenRefind, LeaveFound, WebhookFound, MarkLeft, ApplyLimit
    <3>2. QED BY <1>0, <1>1, <3>1
  <2>4. QED BY <1>2, <2>1, <2>2, <2>3 DEF CallStep
<1>3. ASSUME NEW p \in Procs, EndStep(p) PROVE p = c
  <2>1. CASE EndFind(p) BY <1>0, <2>1 DEF EndFind, TypeOK
  <2>2. CASE EndFound(p) \/ MarkEnded(p) \/ Announce(p)
    <3>1. \E pc : Goto(p, pc) BY <2>2 DEF EndFound, MarkEnded, Announce
    <3>2. QED BY <1>1, <3>1
  <2>3. QED BY <1>3, <2>1, <2>2 DEF EndStep
<1>4. ASSUME NEW s \in Servers, TimerFire(s) PROVE FALSE
  BY <1>0, <1>1, <1>4 DEF TimerFire
<1>5. ASSUME NEW d \in Calls, AccessFails(d) PROVE FALSE
  BY <1>0, <1>1, <1>5 DEF AccessFails
<1>6. ASSUME NEW s \in Servers, Crash(s) PROVE FALSE
  BY <1>0, <1>6, CallFields DEF Crash, CallRecord
<1>7. CASE Tick \/ (\E m \in Limits : SetLimit(m)) \/ UNCHANGED vars
  BY <1>7 DEF Tick, SetLimit, vars
<1>8. ASSUME NEW d \in Calls, ConsoleStep(d) PROVE d = c
  BY <1>0, <1>1, <1>8, ConsoleMoves
<1>9. QED BY <1>2, <1>3, <1>4, <1>5, <1>6, <1>7, <1>8 DEF Next

(* Nobody is let into an active meeting past the limit the call read.      *)
THEOREM AdmitsWithinLimit == Spec => AdmittedWithinLimit
<1>1. ASSUME TInv, [Next]_vars, NEW c \in Calls, call[c].op \in {"join", "guest"},
             call[c].pc # "ok", call'[c].pc = "ok",
             call[c].seen = "ACTIVE", call[c].max # NoLimit
      PROVE  startedAt # NoTime /\ now < startedAt + call[c].max
  <2> USE <1>1 DEF TInv, IInv
  <2>0. c \in Procs /\ Shape(c) BY DEF CallShape, Procs
  <2>1. call[c].pc = "limited" /\ Deadline(c) > now
    <3>1. CASE EndStep(c)
      <4>1. EndFind(c) \/ \E pc : Goto(c, pc) /\ pc # "ok"
        BY <3>1 DEF EndStep, EndFound, MarkEnded, Announce, Return
      <4>2. CASE EndFind(c)
        <5>1. call'[c].pc = "end_found" BY <2>0, <4>2 DEF EndFind, TypeOK, CallRecord
        <5>2. QED BY <5>1
      <4>3. CASE \E pc : Goto(c, pc) /\ pc # "ok"
        <5>1. PICK pc : Goto(c, pc) /\ pc # "ok" BY <4>3
        <5>2. call'[c].pc = pc BY <2>0, <5>1, GotoFields
        <5>3. QED BY <5>1, <5>2
      <4>4. QED BY <4>1, <4>2, <4>3
    <3>2. CASE CallStep(c)
      <4>1. CASE Begin(c) \/ LeaveFound(c) \/ WebhookFound(c) \/ TokenRefind(c) \/ MarkLeft(c)
        <5>1. \E pc : Goto(c, pc) /\ pc # "ok"
          BY <2>0, <4>1 DEF Begin, LeaveFound, WebhookFound, TokenRefind, MarkLeft, Shape, At
        <5>2. PICK pc : Goto(c, pc) /\ pc # "ok" BY <5>1
        <5>3. call'[c].pc = pc BY <2>0, <5>2, GotoFields
        <5>4. QED BY <5>2, <5>3
      <4>2. CASE Find(c) BY <2>0, <4>2 DEF Find, TypeOK, CallRecord
      <4>3. CASE ReadLimit(c) BY <2>0, <4>3 DEF ReadLimit, TypeOK, CallRecord
      <4>4. CASE Upsert(c)
        <5>1. call'[c].pc \in {"start", "limit"} BY <2>0, <4>4 DEF Upsert, TypeOK, CallRecord
        <5>2. QED BY <5>1
      <4>5. CASE MarkStarted(c) BY <2>0, <4>5 DEF MarkStarted, TypeOK, CallRecord
      <4>6. CASE JoinFound(c) \/ GuestFound(c) \/ TokenFound(c)
        <5>1. Goto(c, "rejected") \/ \E next : EnforceLimit(c, next)
          BY <4>6 DEF JoinFound, GuestFound, TokenFound
        <5>2. call'[c].pc = "rejected" \/ call'[c].pc = "limit"
          BY <2>0, <5>1, GotoFields, EnforceLimitFields
        <5>3. QED BY <5>2
      <4>7. CASE ApplyLimit(c)
        <5>1. CASE Goto(c, "end_find")
          <6>1. call'[c].pc = "end_find" BY <2>0, <5>1, GotoFields
          <6>2. QED BY <6>1
        <5>2. CASE Deadline(c) > now BY <4>7, <5>2 DEF ApplyLimit
        <5>3. QED BY <4>7, <5>1, <5>2 DEF ApplyLimit
      <4>8. QED BY <3>2, <4>1, <4>2, <4>3, <4>4, <4>5, <4>6, <4>7 DEF CallStep
    <3>3. CASE ConsoleStep(c)
      <4>1. call[c].op \notin {"join", "guest"}
        BY <2>0, <3>3
        DEF ConsoleStep, ForceFound, ForceEnd, BulkEnd, KickFound, FindParticipant, Shape, At
      <4>2. QED BY <4>1
    <3>4. QED BY <3>1, <3>2, <3>3, OkByOwnStep
  <2>2. startedAt # NoTime BY <2>0, <2>1 DEF Shape, At
  <2>3. call[c].seenStart <= startedAt BY <2>0 DEF SnapshotsOld
  <2>4. now < startedAt + call[c].max BY <2>0, <2>1, <2>3, TimeTypes DEF Deadline
  <2>5. QED BY <2>2, <2>4
<1>2. TInv /\ [Next]_vars =>
        [\A c \in Calls :
           /\ call[c].op \in {"join", "guest"}
           /\ call[c].pc # "ok" /\ call'[c].pc = "ok"
           /\ call[c].seen = "ACTIVE" /\ call[c].max # NoLimit
           => startedAt # NoTime /\ now < startedAt + call[c].max]_vars
  BY <1>1
<1>3. QED BY TimeInvariance, <1>2, PTL DEF Spec, AdmittedWithinLimit
=============================================================================
