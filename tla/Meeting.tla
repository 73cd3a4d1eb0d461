------------------------------ MODULE Meeting ------------------------------
(***************************************************************************)
(* One meeting of the meetings service: its row in the database, its       *)
(* participant rows, the workspace time limit, and the per-process timers  *)
(* that enforce the limit, under concurrent REST, socket, webhook and      *)
(* timer calls on several server processes.                                *)
(*                                                                         *)
(* Grain.  A handler runs synchronously between two awaits.  One action is *)
(* one database access, or one synchronous stretch that reads or writes    *)
(* the in-process timer map; a stretch that only decides where to go next  *)
(* is folded into the access before it.  Different meetings share no       *)
(* state, so one is enough.  assertMeetingScope compares a guest's code    *)
(* with the meeting's: with one meeting it refuses the call on arrival and *)
(* such calls are left out.  A meeting the console deletes is left out     *)
(* too: from then on every query of the row answers nothing.               *)
(***************************************************************************)
EXTENDS Integers, FiniteSets

CONSTANTS
  Servers,        \* API processes; also the names of their timer callbacks
  Calls,          \* client calls, each made at most once in a behaviour
  Users,
  Host,           \* the user in hostId
  Ops,            \* the operations the calls perform
  Limits,         \* values maxMeetingMinutes takes; NoLimit stands for null
  MaxTime,        \* bound: the clock stops here
  MaxFaults       \* bound: process crashes and failed database accesses

NoTime  == -1     \* a null timestamp, or no timer
NoLimit == 0

Procs    == Calls \cup Servers
Statuses == {"WAITING", "ACTIVE", "ENDED"}
ConsoleOps == {"force_end", "bulk_end", "kick"}
AllOps   == {"join", "guest", "token", "leave", "end", "webhook"} \cup ConsoleOps
Access   == {"find", "refind", "limit", "upsert", "start", "leave", "end_find",
             "end_write", "force_write", "bulk_write", "find_participant"}
Answers  == {"ok", "ended", "rejected", "lost"}
PCs      == Access \cup Answers \cup {"idle", "found", "limited", "end_found", "announce"}

ASSUME MeetingAssumption ==
  /\ Servers # {} /\ Calls \cap Servers = {}
  /\ Host \in Users
  /\ Ops \subseteq AllOps
  /\ Limits # {} /\ Limits \subseteq Nat
  /\ MaxTime \in Nat /\ MaxFaults \in Nat

VARIABLES
  status, startedAt, endedAt,   \* the Meeting row
  participants,                 \* Participant rows: absent, present or left
  limit,                        \* WorkspaceConfig.maxMeetingMinutes
  now,                          \* the wall clock, in minutes
  timers,                       \* maxDurationTimers: deadline per process
  call,                         \* the calls in flight and their snapshots
  emitted,                      \* events the meeting's room has been sent
  faults

row  == <<status, startedAt, endedAt>>
vars == <<row, participants, limit, now, timers, call, emitted, faults>>

CallRecord ==
  [pc: PCs, op: AllOps \cup {"timer"}, actor: Users, at: Servers,
   seen: Statuses, seenStart: Int, max: Nat, after: {"upsert", "refind", "ok"}]

TypeOK ==
  /\ status \in Statuses
  /\ startedAt \in Nat \cup {NoTime} /\ endedAt \in Nat \cup {NoTime}
  /\ participants \in [Users -> {"absent", "present", "left"}]
  /\ limit \in Limits
  /\ now \in 0..MaxTime
  /\ timers \in [Servers -> Nat \cup {NoTime}]
  /\ call \in [Procs -> CallRecord]
  /\ emitted \subseteq {"MEETING_ENDED"}
  /\ faults \in 0..MaxFaults

NewCall(o, u, s) ==
  [pc |-> "idle", op |-> o, actor |-> u, at |-> s, seen |-> "WAITING",
   seenStart |-> NoTime, max |-> NoLimit, after |-> "ok"]

(* Only join, leave and end look at who calls; kick names its target. *)
NewCalls ==
  {NewCall(o, u, s) : o \in Ops \cap {"join", "leave", "end", "kick"}, u \in Users, s \in Servers}
    \cup {NewCall(o, Host, s) : o \in Ops, s \in Servers}

(* The row as create() leaves it: WAITING, with the host's participant row *)
(* already in place.  What each call will do is drawn here.                *)
Init ==
  /\ status = "WAITING" /\ startedAt = NoTime /\ endedAt = NoTime
  /\ participants = [u \in Users |-> IF u = Host THEN "present" ELSE "absent"]
  /\ limit \in Limits
  /\ now = 0
  /\ timers = [s \in Servers |-> NoTime]
  /\ \E f \in [Calls -> NewCalls] :
       call = [p \in Procs |-> IF p \in Servers THEN NewCall("timer", Host, p) ELSE f[p]]
  /\ emitted = {}
  /\ faults = 0

-----------------------------------------------------------------------------
(* Steps of a call. *)

Goto(p, pc) == call' = [call EXCEPT ![p].pc = pc]

(* enforceMeetingDurationLimit up to its first await, on the row p holds.  *)
EnforceLimit(p, next) ==
  \/ /\ call[p].seen = "ENDED"
     /\ timers' = [timers EXCEPT ![call[p].at] = NoTime]
     /\ Goto(p, next)
  \/ /\ call[p].seen = "WAITING"
     /\ Goto(p, next)
     /\ UNCHANGED timers
  \/ /\ call[p].seen = "ACTIVE"
     /\ call' = [call EXCEPT ![p] = [@ EXCEPT !.pc = "limit", !.after = next]]
     /\ UNCHANGED timers

Begin(c) ==
  /\ call[c].pc = "idle"
  /\ Goto(c, CASE call[c].op = "end" -> "end_find"
               [] call[c].op = "bulk_end" -> "bulk_write"
               [] OTHER -> "find")
  /\ UNCHANGED <<row, participants, limit, now, timers, emitted, faults>>

(* findByCode: the snapshot the rest of the handler decides from. *)
Find(c) ==
  /\ call[c].pc = "find"
  /\ call' = [call EXCEPT ![c] = [@ EXCEPT !.pc = "found", !.seen = status,
                                         !.seenStart = startedAt]]
  /\ UNCHANGED <<row, participants, limit, now, timers, emitted, faults>>

JoinFound(c) ==
  /\ call[c].pc = "found" /\ call[c].op = "join"
  /\ IF call[c].seen = "ENDED"
       THEN Goto(c, "rejected") /\ UNCHANGED timers
       ELSE EnforceLimit(c, "upsert")
  /\ UNCHANGED <<row, participants, limit, now, emitted, faults>>

(* Mutation: a guest session joins the meeting right away. *)
GuestFound_Joins(c) ==
  /\ call[c].pc = "found" /\ call[c].op = "guest"
  /\ IF call[c].seen = "ENDED"
       THEN Goto(c, "rejected") /\ UNCHANGED timers
       ELSE EnforceLimit(c, "upsert")
  /\ UNCHANGED <<row, participants, limit, now, emitted, faults>>

(* createGuestSession; the account and the token it makes touch no state *)
(* of the meeting.                                                       *)
GuestFound(c) ==
  /\ call[c].pc = "found" /\ call[c].op = "guest"
  /\ IF call[c].seen = "ENDED"
       THEN Goto(c, "rejected") /\ UNCHANGED timers
       ELSE EnforceLimit(c, "ok")
  /\ UNCHANGED <<row, participants, limit, now, emitted, faults>>

(* mintToken enforces the limit first and reads the status afterwards. *)
TokenFound(c) ==
  /\ call[c].pc = "found" /\ call[c].op = "token"
  /\ EnforceLimit(c, "refind")
  /\ UNCHANGED <<row, participants, limit, now, emitted, faults>>

TokenRefind(c) ==
  /\ call[c].pc = "refind"
  /\ Goto(c, IF status = "ENDED" THEN "rejected" ELSE "ok")
  /\ UNCHANGED <<row, participants, limit, now, timers, emitted, faults>>

LeaveFound(c) ==
  /\ call[c].pc = "found" /\ call[c].op = "leave"
  /\ Goto(c, "leave")
  /\ UNCHANGED <<row, participants, limit, now, timers, emitted, faults>>

(* The room_finished webhook of the media server ends the meeting too. *)
WebhookFound(c) ==
  /\ call[c].pc = "found" /\ call[c].op = "webhook"
  /\ Goto(c, IF call[c].seen = "ENDED" THEN "ok" ELSE "end_find")
  /\ UNCHANGED <<row, participants, limit, now, timers, emitted, faults>>

ReadLimit(c) ==
  /\ call[c].pc = "limit"
  /\ call' = [call EXCEPT ![c] = [@ EXCEPT !.pc = "limited", !.max = limit]]
  /\ UNCHANGED <<row, participants, limit, now, timers, emitted, faults>>

Deadline(c) == call[c].seenStart + call[c].max

(* Mutation: the full limit is granted again from now on. *)
ApplyLimit_FromNow(c) ==
  /\ call[c].pc = "limited"
  /\ timers' = [timers EXCEPT ![call[c].at] = IF call[c].max = NoLimit THEN NoTime
                                              ELSE now + call[c].max]
  /\ Goto(c, call[c].after)
  /\ UNCHANGED <<row, participants, limit, now, emitted, faults>>

(* The rest of enforceMeetingDurationLimit, with scheduleMaxDurationTimer. *)
ApplyLimit(c) ==
  /\ call[c].pc = "limited"
  /\ \/ /\ call[c].max = NoLimit
        /\ timers' = [timers EXCEPT ![call[c].at] = NoTime]
        /\ Goto(c, call[c].after)
     \/ /\ call[c].max # NoLimit /\ Deadline(c) <= now
        /\ Goto(c, "end_find")
        /\ UNCHANGED timers
     \/ /\ call[c].max # NoLimit /\ Deadline(c) > now
        /\ timers' = [timers EXCEPT ![call[c].at] = Deadline(c)]
        /\ Goto(c, call[c].after)
  /\ UNCHANGED <<row, participants, limit, now, emitted, faults>>

(* Mutation: the second check of the limit is missing. *)
Upsert_CheckOnce(c) ==
  /\ call[c].pc = "upsert"
  /\ participants' = [participants EXCEPT ![call[c].actor] = "present"]
  /\ Goto(c, IF call[c].seen = "WAITING" THEN "start" ELSE "ok")
  /\ UNCHANGED <<row, limit, now, timers, emitted, faults>>

(* Mutation: every join marks the meeting started. *)
Upsert_AlwaysStarts(c) ==
  /\ call[c].pc = "upsert"
  /\ participants' = [participants EXCEPT ![call[c].actor] = "present"]
  /\ Goto(c, "start")
  /\ UNCHANGED <<row, limit, now, timers, emitted, faults>>

(* upsertParticipant; a join that read WAITING goes on to start the meeting. *)
Upsert(c) ==
  /\ call[c].pc = "upsert"
  /\ participants' = [participants EXCEPT ![call[c].actor] = "present"]
  /\ call' = [call EXCEPT ![c] = [@ EXCEPT !.pc = IF call[c].seen = "WAITING" THEN "start" ELSE "limit",
                                         !.after = "ok"]]
  /\ UNCHANGED <<row, limit, now, timers, emitted, faults>>

(* Mutation: the start time is not written. *)
MarkStarted_NoTime(c) ==
  /\ call[c].pc = "start"
  /\ status' = "ACTIVE"
  /\ call' = [call EXCEPT ![c] = [@ EXCEPT !.pc = "limit", !.after = "ok",
                                         !.seen = "ACTIVE", !.seenStart = now]]
  /\ UNCHANGED <<startedAt, endedAt, participants, limit, now, timers, emitted, faults>>

(* Mutation: the join that starts the meeting arms no timer. *)
MarkStarted_NoTimer(c) ==
  /\ call[c].pc = "start"
  /\ status' = "ACTIVE" /\ startedAt' = now
  /\ Goto(c, "ok")
  /\ UNCHANGED <<endedAt, participants, limit, now, timers, emitted, faults>>

(* markStarted writes unconditionally and returns the row it wrote. *)
MarkStarted(c) ==
  /\ call[c].pc = "start"
  /\ status' = "ACTIVE" /\ startedAt' = now
  /\ call' = [call EXCEPT ![c] = [@ EXCEPT !.pc = "limit", !.after = "ok",
                                         !.seen = "ACTIVE", !.seenStart = now]]
  /\ UNCHANGED <<endedAt, participants, limit, now, timers, emitted, faults>>

(* A leave, and a kick: the present row of the user, if there is one. *)
MarkLeft(c) ==
  /\ call[c].pc = "leave"
  /\ participants' = [participants EXCEPT
                        ![call[c].actor] = IF @ = "present" THEN "left" ELSE @]
  /\ Goto(c, "ok")
  /\ UNCHANGED <<row, limit, now, timers, emitted, faults>>

-----------------------------------------------------------------------------
(* end(), run by the host, by the webhook, by a timer, and by a call that  *)
(* found the meeting past its limit.                                       *)

Entitled(p) == call[p].op = "end" => call[p].actor = Host

EndFind(p) ==
  /\ call[p].pc = "end_find"
  /\ call' = [call EXCEPT ![p] = [@ EXCEPT !.pc = "end_found", !.seen = status]]
  /\ UNCHANGED <<row, participants, limit, now, timers, emitted, faults>>

(* Where a call goes when its end() returns. *)
Return(p) == CASE call[p].op \in {"end", "webhook"} -> "ok"
               [] call[p].op = "timer" -> "idle"
               [] OTHER -> "rejected"

(* Mutation: anybody may end the meeting. *)
EndFound_Anybody(p) ==
  /\ call[p].pc = "end_found"
  /\ timers' = [timers EXCEPT ![call[p].at] = NoTime]
  /\ Goto(p, IF call[p].seen = "ENDED" THEN Return(p) ELSE "end_write")
  /\ UNCHANGED <<row, participants, limit, now, emitted, faults>>

(* Mutation: the timer is cleared before the requester is checked. *)
EndFound_ClearsFirst(p) ==
  /\ call[p].pc = "end_found"
  /\ timers' = [timers EXCEPT ![call[p].at] = NoTime]
  /\ Goto(p, IF ~Entitled(p) THEN "rejected"
             ELSE IF call[p].seen = "ENDED" THEN Return(p) ELSE "end_write")
  /\ UNCHANGED <<row, participants, limit, now, emitted, faults>>

EndFound(p) ==
  /\ call[p].pc = "end_found"
  /\ \/ /\ ~Entitled(p)
        /\ Goto(p, "rejected")
        /\ UNCHANGED timers
     \/ /\ Entitled(p)
        /\ timers' = [timers EXCEPT ![call[p].at] = NoTime]
        /\ Goto(p, IF call[p].seen = "ENDED" THEN Return(p) ELSE "end_write")
  /\ UNCHANGED <<row, participants, limit, now, emitted, faults>>

(* Mutation: the room is not told. *)
MarkEnded_Silent(p) ==
  /\ call[p].pc = "end_write"
  /\ status' = "ENDED" /\ endedAt' = now
  /\ Goto(p, Return(p))
  /\ UNCHANGED <<startedAt, participants, limit, now, timers, emitted, faults>>

MarkEnded(p) ==
  /\ call[p].pc = "end_write"
  /\ status' = "ENDED" /\ endedAt' = now
  /\ Goto(p, "announce")
  /\ UNCHANGED <<startedAt, participants, limit, now, timers, emitted, faults>>

Announce(p) ==
  /\ call[p].pc = "announce"
  /\ emitted' = emitted \cup {"MEETING_ENDED"}
  /\ Goto(p, Return(p))
  /\ UNCHANGED <<row, participants, limit, now, timers, faults>>

(* The callback of the process's timer.  The model runs the callbacks of   *)
(* one process one at a time.                                              *)
TimerFire(s) ==
  /\ call[s].pc = "idle"
  /\ timers[s] # NoTime /\ timers[s] <= now
  /\ timers' = [timers EXCEPT ![s] = NoTime]
  /\ Goto(s, "end_find")
  /\ UNCHANGED <<row, participants, limit, now, emitted, faults>>

-----------------------------------------------------------------------------
(* The administrators' console works on the rows alone: it clears no       *)
(* timer, tells the room nothing, and closes the media room as best it     *)
(* can.  What the room's end brings is the webhook, on its own.            *)

ForceFound(c) ==
  /\ call[c].pc = "found" /\ call[c].op = "force_end"
  /\ Goto(c, IF call[c].seen = "ENDED" THEN "ok" ELSE "force_write")
  /\ UNCHANGED <<row, participants, limit, now, timers, emitted, faults>>

(* The console's markEnded: unconditional, whatever happened since the find. *)
ForceEnd(c) ==
  /\ call[c].pc = "force_write"
  /\ status' = "ENDED" /\ endedAt' = now
  /\ Goto(c, "ended")
  /\ UNCHANGED <<startedAt, participants, limit, now, timers, emitted, faults>>

(* markAllActiveEnded: one conditional update. *)
BulkEnd(c) ==
  /\ call[c].pc = "bulk_write"
  /\ \/ /\ status = "ACTIVE"
        /\ status' = "ENDED" /\ endedAt' = now
        /\ Goto(c, "ended")
     \/ /\ status # "ACTIVE"
        /\ Goto(c, "ok")
        /\ UNCHANGED <<status, endedAt>>
  /\ UNCHANGED <<startedAt, participants, limit, now, timers, emitted, faults>>

KickFound(c) ==
  /\ call[c].pc = "found" /\ call[c].op = "kick"
  /\ Goto(c, "find_participant")
  /\ UNCHANGED <<row, participants, limit, now, timers, emitted, faults>>

FindParticipant(c) ==
  /\ call[c].pc = "find_participant"
  /\ Goto(c, IF participants[call[c].actor] = "absent" THEN "rejected" ELSE "leave")
  /\ UNCHANGED <<row, participants, limit, now, timers, emitted, faults>>

-----------------------------------------------------------------------------
(* The environment. *)

Tick ==
  /\ now < MaxTime
  /\ now' = now + 1
  /\ UNCHANGED <<row, participants, limit, timers, call, emitted, faults>>

(* An administrator changes the workspace limit; no timer is touched. *)
SetLimit(m) ==
  /\ m # limit
  /\ limit' = m
  /\ UNCHANGED <<row, participants, now, timers, call, emitted, faults>>

(* A database access of a client call throws and the call answers an error. *)
AccessFails(c) ==
  /\ faults < MaxFaults /\ faults' = faults + 1
  /\ call[c].pc \in Access
  /\ Goto(c, "rejected")
  /\ UNCHANGED <<row, participants, limit, now, timers, emitted>>

(* A process dies with its calls and its timers, and comes back without.   *)
(* A rejected end() of a timer callback, which nothing catches, is one     *)
(* cause.                                                                  *)
Crash(s) ==
  /\ faults < MaxFaults /\ faults' = faults + 1
  /\ timers' = [timers EXCEPT ![s] = NoTime]
  /\ call' = [p \in Procs |->
                IF call[p].at # s \/ call[p].pc \in Answers \cup {"idle"}
                  THEN call[p]
                  ELSE [call[p] EXCEPT !.pc = IF p \in Servers THEN "idle" ELSE "lost"]]
  /\ UNCHANGED <<row, participants, limit, now, emitted>>

CallStep(c) ==
  \/ Begin(c) \/ Find(c)
  \/ JoinFound(c) \/ GuestFound(c) \/ TokenFound(c) \/ LeaveFound(c) \/ WebhookFound(c)
  \/ TokenRefind(c) \/ ReadLimit(c) \/ ApplyLimit(c)
  \/ Upsert(c) \/ MarkStarted(c) \/ MarkLeft(c)

ConsoleStep(c) ==
  \/ ForceFound(c) \/ ForceEnd(c) \/ BulkEnd(c)
  \/ KickFound(c) \/ FindParticipant(c)

EndStep(p) == EndFind(p) \/ EndFound(p) \/ MarkEnded(p) \/ Announce(p)

Next ==
  \/ \E c \in Calls : CallStep(c) \/ ConsoleStep(c)
  \/ \E p \in Procs : EndStep(p)
  \/ \E s \in Servers : TimerFire(s)
  \/ Tick
  \/ \E m \in Limits : SetLimit(m)
  \/ \E c \in Calls : AccessFails(c)
  \/ \E s \in Servers : Crash(s)

Spec == Init /\ [][Next]_vars

(* A call that has begun runs on, an armed timer fires, time passes.       *)
(* Nobody is obliged to begin a call.                                      *)
Fairness ==
  /\ \A c \in Calls : WF_vars(call[c].pc # "idle" /\ (CallStep(c) \/ ConsoleStep(c)))
  /\ \A p \in Procs : WF_vars(EndStep(p))
  /\ \A s \in Servers : WF_vars(TimerFire(s))
  /\ WF_vars(Tick)

FairSpec == Spec /\ Fairness
-----------------------------------------------------------------------------
(* Properties. *)

(* The row tells one story: the timestamps agree with the status and the   *)
(* clock, and whoever join() answered "ok" has a participant row in a      *)
(* meeting that was started.                                               *)
RowConsistent ==
  /\ status = "WAITING" => startedAt = NoTime /\ endedAt = NoTime
  /\ status = "ACTIVE" => startedAt # NoTime
  /\ status = "ENDED" => endedAt # NoTime
  /\ startedAt <= now /\ endedAt <= now
  /\ \A c \in Calls : call[c].op = "join" /\ call[c].pc = "ok" =>
       startedAt # NoTime /\ participants[call[c].actor] # "absent"

(* A timer armed from an old snapshot never outlasts the limit: whatever   *)
(* joins restarted the meeting meanwhile, it fires within some configured  *)
(* limit of the start time now in the row.                                 *)
TimerWithinLimit ==
  \A s \in Servers : timers[s] # NoTime =>
    /\ startedAt # NoTime
    /\ \E m \in Limits \ {NoLimit} : timers[s] <= startedAt + m

(* Somebody will still end the meeting: an armed timer, a call about to    *)
(* enforce the limit, or an end() on its way to the write.                 *)
Watcher(p) ==
  \/ call[p].pc \in {"limit", "limited"}
  \/ call[p].pc \in {"end_find", "end_found", "end_write"} /\ Entitled(p)

(* While a limit is in force and nothing has failed, an active meeting     *)
(* that was never ended is watched: clearing and re-arming the timers of   *)
(* several processes never drops the last one.                             *)
LimitWatched ==
  faults = 0 /\ NoLimit \notin Limits /\ status = "ACTIVE" /\ endedAt = NoTime =>
    \/ \E s \in Servers : timers[s] # NoTime
    \/ \E p \in Procs : Watcher(p)

(* Only the host, the media server's webhook, a timer, a call that found   *)
(* the meeting past the limit it read, or an administrator ends a meeting. *)
EndedByRight ==
  [][status' = "ENDED" /\ status # "ENDED" =>
       \/ \E p \in Procs :
            /\ call[p].pc = "end_write" /\ call'[p].pc # "end_write"
            /\ Entitled(p)
            /\ call[p].op \in {"join", "guest", "token"} =>
                 call[p].max # NoLimit /\ Deadline(p) <= now
       \/ \E c \in Calls :
            /\ call[c].op \in {"force_end", "bulk_end"}
            /\ call[c].pc # "ended" /\ call'[c].pc = "ended"]_vars

(* Nobody is let into an active meeting past the limit the call read, even *)
(* when every timer was lost with its process: join and createGuestSession *)
(* check the limit as the last thing they do with the meeting.             *)
AdmittedWithinLimit ==
  [][\A c \in Calls :
       /\ call[c].op \in {"join", "guest"}
       /\ call[c].pc # "ok" /\ call'[c].pc = "ok"
       /\ call[c].seen = "ACTIVE" /\ call[c].max # NoLimit
       => startedAt # NoTime /\ now < startedAt + call[c].max]_vars

(* The joins that read WAITING and may still write ACTIVE. *)
Pending ==
  {c \in Calls : call[c].op = "join" /\ call[c].seen = "WAITING"
                  /\ call[c].pc \in {"found", "upsert", "start"}}

Lifecycle == INSTANCE MeetingLifecycle WITH Joins <- Calls, pending <- Pending

(* The handlers implement the lifecycle the component promises. *)
ImplementsLifecycle == Lifecycle!Spec

(* A meeting that has ended with no first join pending never starts again. *)
OverForGood == [][Lifecycle!Over => Lifecycle!Over']_vars

(* What a reader of the join tests expects, and the code does not give: a  *)
(* meeting becomes active only from WAITING.                               *)
OnlyWaitingStarts ==
  [][status # "ACTIVE" /\ status' = "ACTIVE" => status = "WAITING"]_vars

(* Under FairSpec, with a limit in force and no faults, an active meeting  *)
(* ends (unless its deadline lies beyond the model's clock).               *)
LimitEnforced ==
  (status = "ACTIVE" /\ endedAt = NoTime)
    ~> (endedAt # NoTime \/ \E m \in Limits : startedAt + m > MaxTime)

(* An administrator ended the meeting, which tells the room nothing. *)
EndedByConsole == \E c \in Calls : call[c].pc = "ended"

(* Under FairSpec without faults the room is told that the meeting ended,  *)
(* however many ends race, unless an administrator was among those who     *)
(* ended it: the webhook that follows then finds it ended and returns.     *)
EndAnnounced ==
  (status = "ENDED") ~> ("MEETING_ENDED" \in emitted \/ EndedByConsole)
=============================================================================
