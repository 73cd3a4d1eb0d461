-------------------------------- MODULE Polls --------------------------------
(***************************************************************************)
(* One poll: its creation, and the ballots that replace a voter's choices. *)
(*                                                                         *)
(* Grain.  A ballot reads the poll and its options, then runs a            *)
(* transaction of two statements under READ COMMITTED.  The rows the first *)
(* statement deletes are those committed when it starts; of two ballots    *)
(* that want to delete the same row the one that commits first stands for  *)
(* the one that held its lock.  Left out: membership, requests refused for *)
(* their form, the serialized poll the room is told; closedAt, which is    *)
(* read but which nothing sets.                                            *)
(***************************************************************************)
EXTENDS FiniteSets

CONSTANTS
  Voters,         \* the members who vote
  Options,        \* the options of the poll
  Ballots         \* bound: the calls of vote() that run at the same time

VARIABLES
  poll,           \* whether it is made, and allows several choices
  votes,          \* the rows of PollVote
  ballot,         \* the calls of vote() in flight
  crossed         \* history: the voters two of whose ballots overlapped

pollVars == <<poll, votes, ballot, crossed>>

BallotPCs == {"idle", "delete", "insert"}

NoBallot == [pc |-> "idle", voter |-> {}, ids |-> {}, gone |-> {}]

(* voter holds the one voter of a ballot in flight. *)
Ballot == [pc: BallotPCs, voter: SUBSET Voters, ids: SUBSET Options, gone: SUBSET Options]

PollsTypeOK ==
  /\ poll \in [made: BOOLEAN, multiple: BOOLEAN]
  /\ votes \subseteq Voters \X Options
  /\ ballot \in [Ballots -> Ballot]
  /\ crossed \subseteq Voters

PollsInit ==
  /\ poll = [made |-> FALSE, multiple |-> FALSE]
  /\ votes = {}
  /\ ballot = [b \in Ballots |-> NoBallot]
  /\ crossed = {}

Choices(v) == {o \in Options : <<v, o>> \in votes}

-----------------------------------------------------------------------------
CreatePoll ==
  /\ ~poll.made
  /\ \E m \in BOOLEAN : poll' = [made |-> TRUE, multiple |-> m]
  /\ UNCHANGED <<votes, ballot, crossed>>

(* Mutation: a poll of one choice takes several. *)
CheckVote_Any(b) ==
  /\ ballot[b].pc = "idle" /\ poll.made
  /\ \E v \in Voters, ids \in (SUBSET Options) \ {{}} :
       ballot' = [ballot EXCEPT ![b] = [pc |-> "delete", voter |-> {v}, ids |-> ids, gone |-> {}]]
  /\ UNCHANGED <<poll, votes, crossed>>

(* vote() up to setVotes. *)
CheckVote(b) ==
  /\ ballot[b].pc = "idle" /\ poll.made
  /\ \E v \in Voters, ids \in (SUBSET Options) \ {{}} :
       /\ poll.multiple \/ \E o \in Options : ids = {o}
       /\ ballot' = [ballot EXCEPT ![b] =
                       [pc |-> "delete", voter |-> {v}, ids |-> ids, gone |-> {}]]
  /\ UNCHANGED <<poll, votes, crossed>>

(* Mutation: the votes of before are kept. *)
DeleteVotes_None(b) ==
  /\ ballot[b].pc = "delete"
  /\ ballot' = [ballot EXCEPT ![b].pc = "insert"]
  /\ UNCHANGED <<poll, votes, crossed>>

(* deleteMany: nothing of it is seen before the commit. *)
DeleteVotes(b) ==
  /\ ballot[b].pc = "delete"
  /\ \E v \in ballot[b].voter :
       ballot' = [ballot EXCEPT ![b].pc = "insert", ![b].gone = Choices(v)]
  /\ UNCHANGED <<poll, votes, crossed>>

(* The other ballots of the voter find the rows gone, and have not seen    *)
(* the rows that take their place.                                         *)
Overtaken(b, d) ==
  d # b /\ ballot[d].pc = "insert" /\ ballot[d].voter = ballot[b].voter

(* createMany and the commit; a row that is there already undoes both. *)
InsertVotes(b) ==
  /\ ballot[b].pc = "insert"
  /\ \E v \in ballot[b].voter :
       LET left == Choices(v) \ ballot[b].gone IN
         /\ ballot[b].ids \cap left = {}
         /\ votes' = {w \in votes : w[1] # v \/ w[2] \in left} \cup {<<v, o>> : o \in ballot[b].ids}
         /\ crossed' = IF \E d \in Ballots : Overtaken(b, d) THEN crossed \cup {v} ELSE crossed
         /\ ballot' = [d \in Ballots |->
                         IF d = b THEN NoBallot
                         ELSE IF Overtaken(b, d)
                           THEN [ballot[d] EXCEPT !.gone = @ \ ballot[b].gone]
                         ELSE ballot[d]]
  /\ UNCHANGED poll

(* The transaction is rolled back: a row of createMany exists, or the      *)
(* process dies.                                                           *)
RollBack(b) ==
  /\ ballot[b].pc # "idle"
  /\ ballot' = [ballot EXCEPT ![b] = NoBallot]
  /\ UNCHANGED <<poll, votes, crossed>>

PollsNext ==
  \/ CreatePoll
  \/ \E b \in Ballots : CheckVote(b) \/ DeleteVotes(b) \/ InsertVotes(b) \/ RollBack(b)

PollsSpec == PollsInit /\ [][PollsNext]_pollVars
-----------------------------------------------------------------------------
(* Properties. *)

(* In a poll of one choice a voter has at most one vote, however often it  *)
(* is changed, unless two ballots of that voter overlapped between the     *)
(* deletion and the commit: the unique index is on the option and the      *)
(* voter, so that it does not stop the second choice.                      *)
OneChoice ==
  poll.multiple \/
    \A v \in Voters \ crossed : \A o, p \in Options :
      <<v, o>> \in votes /\ <<v, p>> \in votes => o = p

(* A ballot replaces its voter's choices as AtomicPoll says, and no one's  *)
(* but those, however the deletions, insertions, collisions and rollbacks  *)
(* of all voters' ballots are interleaved.                                 *)
Atomic == INSTANCE AtomicPoll WITH overlapped <- crossed

ImplementsAtomicPoll == Atomic!Spec
=============================================================================
