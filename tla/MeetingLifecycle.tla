-------------------------- MODULE MeetingLifecycle --------------------------
(***************************************************************************)
(* What the meetings component promises about the status of one meeting.   *)
(*                                                                         *)
(* A meeting waits, becomes active when somebody joins, and ends.  A join  *)
(* decides from the status it read when it arrived, so the promise has to  *)
(* name the joins that read WAITING and have not written yet: while one is *)
(* pending, even an ended meeting can be started again.  Once the meeting  *)
(* has ended and no such join is pending it is over for good.              *)
(*                                                                         *)
(* Meeting.tla implements this specification.                              *)
(***************************************************************************)

CONSTANT Joins      \* the calls that may try to start the meeting

VARIABLES
  status,           \* the status column of the meeting
  pending           \* the joins that saw WAITING and have not written

vars == <<status, pending>>

Statuses == {"WAITING", "ACTIVE", "ENDED"}

Init == status = "WAITING" /\ pending = {}

(* A join reads a meeting nobody has started. *)
Arrive(j) ==
  /\ status = "WAITING"
  /\ pending' = pending \cup {j}
  /\ UNCHANGED status

(* A pending join starts the meeting, whatever became of it since. *)
Start(j) ==
  /\ j \in pending
  /\ status' = "ACTIVE"
  /\ pending' = pending \ {j}

(* Pending joins fail, or are lost with the process that ran them. *)
Abandon ==
  /\ pending' \in SUBSET pending
  /\ UNCHANGED status

End ==
  /\ status' = "ENDED"
  /\ UNCHANGED pending

Next ==
  \/ \E j \in Joins : Arrive(j) \/ Start(j)
  \/ Abandon
  \/ End

Spec == Init /\ [][Next]_vars

TypeOK == status \in Statuses /\ pending \subseteq Joins

Over == status = "ENDED" /\ pending = {}

=============================================================================
