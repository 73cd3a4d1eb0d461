----------------------------- MODULE AtomicPoll -----------------------------
(***************************************************************************)
(* What a poll promises its voters: a ballot replaces what its voter had   *)
(* chosen, at once and whole, and nobody else's choices move.  The code    *)
(* keeps that promise for a voter whose ballots come one after the other.  *)
(* Of two that overlapped it leaves more than the later one names: all of  *)
(* that one, and some of what there was.                                   *)
(*                                                                         *)
(* Polls.tla implements this specification.                                *)
(***************************************************************************)

CONSTANTS Voters, Options

VARIABLES
  poll,             \* whether it is made, and allows several choices
  votes,            \* who chose what
  overlapped        \* the voters two of whose ballots overlapped

vars == <<poll, votes, overlapped>>

Init ==
  /\ poll = [made |-> FALSE, multiple |-> FALSE]
  /\ votes = {} /\ overlapped = {}

Create ==
  /\ ~poll.made
  /\ \E m \in BOOLEAN : poll' = [made |-> TRUE, multiple |-> m]
  /\ UNCHANGED <<votes, overlapped>>

(* The choices a ballot may name. *)
Allowed(ids) == ids # {} /\ (poll.multiple \/ \E o \in Options : ids = {o})

Of(v)     == {w \in votes : w[1] = v}
Cast(v, ids) == {v} \X ids

(* The ballot may turn out to overlap one that is not counted yet. *)
Replace(v, ids) ==
  /\ v \notin overlapped
  /\ votes' = (votes \ Of(v)) \cup Cast(v, ids)
  /\ overlapped' \in {overlapped, overlapped \cup {v}}

Merge(v, ids) ==
  /\ v \in overlapped
  /\ \E kept \in SUBSET Of(v) : votes' = (votes \ Of(v)) \cup kept \cup Cast(v, ids)
  /\ UNCHANGED overlapped

Vote(v) ==
  /\ poll.made
  /\ \E ids \in SUBSET Options : Allowed(ids) /\ (Replace(v, ids) \/ Merge(v, ids))
  /\ UNCHANGED poll

Next == Create \/ \E v \in Voters : Vote(v)

Spec == Init /\ [][Next]_vars
=============================================================================
