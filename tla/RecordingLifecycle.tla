-------------------------- MODULE RecordingLifecycle --------------------------
(***************************************************************************)
(* What the recordings of a meeting promise.  A job of the media server    *)
(* records and ends well or not; its row is written once, is stopped, and  *)
(* is settled the way the job ended.  A stop writes what it decided when   *)
(* it picked the row, so the promise has to name the rows a stop is about  *)
(* to mark: such a row can be STOPPING after it was settled, until it is   *)
(* settled again.  When the meeting is deleted the rows are gone, those    *)
(* included that were yet to be written; the jobs are not.                 *)
(*                                                                         *)
(* Recording.tla implements this specification.                            *)
(***************************************************************************)

CONSTANT Jobs       \* the egress jobs

VARIABLES
  job,              \* free, recording, complete or failed
  status,           \* the status column of its row, none before there is one
  picked            \* the rows that a stop has picked and not marked

vars == <<job, status, picked>>

Verdict(outcome) == IF outcome = "failed" THEN "FAILED" ELSE "COMPLETED"

Init ==
  /\ job = [e \in Jobs |-> "free"]
  /\ status = [e \in Jobs |-> "none"]
  /\ picked = {}

Launch(e) ==
  /\ job[e] = "free" /\ job' = [job EXCEPT ![e] = "recording"]
  /\ UNCHANGED <<status, picked>>

(* A row is written once, maybe after its job has ended. *)
Record(e) ==
  /\ job[e] # "free"
  /\ status[e] = "none" /\ status' = [status EXCEPT ![e] = "RECORDING"]
  /\ UNCHANGED <<job, picked>>

End(e) ==
  /\ job[e] = "recording"
  /\ \E outcome \in {"complete", "failed"} : job' = [job EXCEPT ![e] = outcome]
  /\ UNCHANGED <<status, picked>>

Pick(e) ==
  /\ status[e] \in {"RECORDING", "STOPPING"}
  /\ picked' = picked \cup {e}
  /\ UNCHANGED <<job, status>>

(* Another stop may have picked the same row. *)
Mark(e) ==
  /\ e \in picked /\ status[e] # "gone"
  /\ status' = [status EXCEPT ![e] = "STOPPING"]
  /\ picked' \in {picked, picked \ {e}}
  /\ UNCHANGED job

(* Stops fail, or are lost with the process that ran them. *)
Abandon == picked' \in SUBSET picked /\ UNCHANGED <<job, status>>

Settle(e) ==
  /\ job[e] \in {"complete", "failed"} /\ status[e] \notin {"none", "gone"}
  /\ status' = [status EXCEPT ![e] = Verdict(job[e])]
  /\ UNCHANGED <<job, picked>>

Delete ==
  /\ status' = [e \in Jobs |-> "gone"]
  /\ UNCHANGED <<job, picked>>

Next ==
  \/ Abandon \/ Delete
  \/ \E e \in Jobs : \/ Launch(e) \/ Record(e) \/ End(e)
                     \/ Pick(e) \/ Mark(e) \/ Settle(e)

Spec == Init /\ [][Next]_vars
=============================================================================
