---------------------------- MODULE MCRecording ----------------------------
(***************************************************************************)
(* Instances of Recording for TLC.                                         *)
(***************************************************************************)
EXTENDS Recording, SequencesExt, TLC

(* Requests, and jobs, are interchangeable: the specification names none.  *)
Symmetry == Permutations(Calls) \cup Permutations(Egresses)

(* TLC's symmetry is not sound for liveness.  Of behaviours that differ in *)
(* the names of requests and jobs only, InTurn keeps the one in which the  *)
(* kinds of the requests, which never change, and the first uses of the    *)
(* jobs are in this order.                                                 *)
CallOrder == SetToSeq(Calls)
EgressOrder == SetToSeq(Egresses)

Rank(k) == (IF k.op = "start" THEN 0 ELSE 1) + (IF k.host THEN 0 ELSE 2)

InTurn ==
  /\ \A i, j \in DOMAIN CallOrder :
       i < j => Rank(call[CallOrder[i]]) <= Rank(call[CallOrder[j]])
  /\ \A i, j \in DOMAIN EgressOrder :
       i < j /\ egress[EgressOrder[j]] # "free" => egress[EgressOrder[i]] # "free"
=============================================================================
