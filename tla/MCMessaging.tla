---------------------------- MODULE MCMessaging ----------------------------
(***************************************************************************)
(* Instances for TLC of what is around messages and of schedule(): the     *)
(* sockets of a user, one message, one poll, one member's view of a        *)
(* conversation, one series of meetings.  They share no variable, so one   *)
(* of them moves in a behaviour and the others stay as they began.  For    *)
(* the same reason their calls may bear the same names.                    *)
(***************************************************************************)
EXTENDS Presence, Thread, Polls, ReadMarks, Series, TLC

VARIABLE part     \* the component that moves

messagingVars == <<part, presenceVars, threadVars, pollVars, markVars, seriesVars>>

(* The first dates: the end of a long month, the end of a short one, the   *)
(* 29th of February 2024; the last days: in February 2023, in April 2024.  *)
MCStarts == {[month |-> 0, day |-> 31], [month |-> 10, day |-> 30], [month |-> 13, day |-> 29]}
MCUntils == {0, 58, 460}

Init ==
  /\ part \in {"presence", "thread", "polls", "marks", "series"}
  /\ PresenceInit /\ ThreadInit /\ PollsInit /\ MarksInit /\ SeriesInit

Next ==
  /\ part' = part
  /\ \/ /\ part = "presence" /\ PresenceNext
        /\ UNCHANGED <<threadVars, pollVars, markVars, seriesVars>>
     \/ /\ part = "thread" /\ ThreadNext
        /\ UNCHANGED <<presenceVars, pollVars, markVars, seriesVars>>
     \/ /\ part = "polls" /\ PollsNext
        /\ UNCHANGED <<presenceVars, threadVars, markVars, seriesVars>>
     \/ /\ part = "marks" /\ MarksNext
        /\ UNCHANGED <<presenceVars, threadVars, pollVars, seriesVars>>
     \/ /\ part = "series" /\ SeriesNext
        /\ UNCHANGED <<presenceVars, threadVars, pollVars, markVars>>

Spec == Init /\ [][Next]_messagingVars

(* The variables of each component hold what they are declared to hold. *)
TypeOK == PresenceTypeOK /\ ThreadTypeOK /\ PollsTypeOK /\ MarksTypeOK /\ SeriesTypeOK

(* No specification names a socket or a handler. *)
Symmetry == Permutations(Sockets) \cup Permutations(MsgCalls)
=============================================================================
