----------------------------- MODULE MCGroups -----------------------------
(***************************************************************************)
(* Instances of Groups for TLC.                                            *)
(***************************************************************************)
EXTENDS Groups, TLC

(* The specification names no user and no handler. *)
Symmetry == Permutations(Users) \cup Permutations(Calls)
=============================================================================
