----------------------------- MODULE MCMeeting -----------------------------
(***************************************************************************)
(* Instances of Meeting for TLC.                                           *)
(***************************************************************************)
EXTENDS Meeting, TLC

(* Calls, and processes, are interchangeable: the specification names none. *)
Symmetry == Permutations(Calls) \cup Permutations(Servers)
=============================================================================
