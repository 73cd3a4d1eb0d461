------------------------------ MODULE MCKnock ------------------------------
(***************************************************************************)
(* Instances of Knock for TLC: the host's sockets h1 and h2, of a page     *)
(* each, and two connections of one page of the guest's.  A page is named  *)
(* for its first connection.                                               *)
(***************************************************************************)
EXTENDS Knock

CONSTANTS h1, h2, a1, a2

MCUserOf == [s \in Sockets |-> IF s \in {h1, h2} THEN "host" ELSE "ann"]
MCPageOf == [s \in Sockets |-> IF s = a2 THEN a1 ELSE s]

OneServer == [s \in Sockets |-> "s1"]

(* The host is connected to another process than the guests. *)
TwoServers == [s \in Sockets |-> IF s \in {h1, h2} THEN "s1" ELSE "s2"]
=============================================================================
