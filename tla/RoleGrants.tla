----------------------------- MODULE RoleGrants -----------------------------
(***************************************************************************)
(* What one administrator role grants: its row with the revision number    *)
(* cacheRev, the cache every API process keeps of it, and the guard that   *)
(* asks the cache on each request.                                         *)
(*                                                                         *)
(* Grain.  The row is read and written in one action each; what follows    *)
(* the answer of the database, up to the next await, is one more.  Left    *)
(* out: names and descriptions, the lockout guard, which refuses a caller  *)
(* some grants, and that the role comes from the access token.             *)
(***************************************************************************)
EXTENDS Naturals

CONSTANTS
  Grants,         \* what a role may grant: permission type and keys
  DefaultGrants,  \* what the seed of the Member role grants
  Processes,      \* the API processes
  RoleCalls,      \* bound: the handlers that run at the same time
  MaxRev          \* bound: updates of the role

ASSUME RoleGrantsAssumption == DefaultGrants \in Grants /\ MaxRev \in Nat \ {0}

VARIABLES
  rev, grants,    \* the row: cacheRev, 0 when there is no row, and the grants
  cache,          \* per process: the revision and grants it keeps, revision 0 for none
  reborn,         \* history: the role was deleted and seeded again under the same id
  request         \* the handlers in flight

grantsVars == <<rev, grants, cache, reborn, request>>

Entry   == [rev: 0..MaxRev, grants: Grants]
NoEntry == [rev |-> 0, grants |-> DefaultGrants]

RolePCs == {"idle", "resolve", "granted", "update", "remove", "invalidate"}

(* row: what the guard has read; grants: what it grants, or what an update *)
(* is to write.                                                            *)
RoleCall == [pc: RolePCs, at: Processes, row: Entry, grants: Grants]

GrantsTypeOK ==
  /\ rev \in 0..MaxRev /\ grants \in Grants
  /\ cache \in [Processes -> Entry]
  /\ reborn \in BOOLEAN
  /\ request \in [RoleCalls -> RoleCall]

GrantsInit ==
  /\ rev = 1 /\ grants = DefaultGrants
  /\ cache = [s \in Processes |-> NoEntry]
  /\ reborn = FALSE
  /\ request \in [RoleCalls -> [pc: {"idle"}, at: Processes, row: {NoEntry},
                                grants: {DefaultGrants}]]

(* A handler runs on one process; each is a request to the same one. *)
RoleStep(c, pc, row, g) ==
  request' = [request EXCEPT ![c] = [pc |-> pc, at |-> request[c].at, row |-> row, grants |-> g]]

RoleDone(c) == RoleStep(c, "idle", NoEntry, DefaultGrants)

-----------------------------------------------------------------------------
(* The guard. *)

(* resolve(): the row is read on every request; none, and all is denied. *)
FindRole(c) ==
  /\ request[c].pc = "idle" /\ rev > 0
  /\ RoleStep(c, "resolve", [rev |-> rev, grants |-> grants], DefaultGrants)
  /\ UNCHANGED <<rev, grants, cache, reborn>>

(* The entry of the same revision is taken; another one is replaced. *)
Resolve(c) ==
  LET s == request[c].at
      row == request[c].row
      entry == IF cache[s].rev = row.rev THEN cache[s] ELSE row IN
  /\ request[c].pc = "resolve"
  /\ cache' = [cache EXCEPT ![s] = entry]
  /\ RoleStep(c, "granted", row, entry.grants)
  /\ UNCHANGED <<rev, grants, reborn>>

AnswerGuarded(c) ==
  /\ request[c].pc \in {"granted", "invalidate"}
  /\ cache' = IF request[c].pc = "granted" THEN cache
              ELSE [cache EXCEPT ![request[c].at] = NoEntry]
  /\ RoleDone(c)
  /\ UNCHANGED <<rev, grants, reborn>>

-----------------------------------------------------------------------------
(* The administration of the role. *)

(* update(): the row is found, and may be changed. *)
UpdateRole(c) ==
  /\ request[c].pc = "idle" /\ rev > 0
  /\ \E g \in Grants : RoleStep(c, "update", NoEntry, g)
  /\ UNCHANGED <<rev, grants, cache, reborn>>

(* Mutation: the revision stays. *)
WriteRole_SameRev(c) ==
  /\ request[c].pc = "update"
  /\ rev > 0
  /\ grants' = request[c].grants
  /\ RoleStep(c, "invalidate", NoEntry, DefaultGrants)
  /\ UNCHANGED <<rev, cache, reborn>>

(* The update of a row that is gone throws. *)
WriteRole(c) ==
  /\ request[c].pc = "update"
  /\ \/ rev = 0 /\ RoleDone(c) /\ UNCHANGED <<rev, grants>>
     \/ /\ rev \in 1..(MaxRev - 1)
        /\ rev' = rev + 1 /\ grants' = request[c].grants
        /\ RoleStep(c, "invalidate", NoEntry, DefaultGrants)
  /\ UNCHANGED <<cache, reborn>>

(* remove(): no administrator has the role. *)
RemoveRole(c) ==
  /\ request[c].pc = "idle" /\ rev > 0
  /\ RoleStep(c, "remove", NoEntry, DefaultGrants)
  /\ UNCHANGED <<rev, grants, cache, reborn>>

(* The database refuses when somebody was given the role, or it is gone. *)
EraseRole(c) ==
  /\ request[c].pc = "remove"
  /\ \/ RoleDone(c) /\ UNCHANGED <<rev, grants>>
     \/ /\ rev > 0 /\ rev' = 0 /\ grants' = DefaultGrants
        /\ RoleStep(c, "invalidate", NoEntry, DefaultGrants)
  /\ UNCHANGED <<cache, reborn>>

(* A process starts again with an empty cache, and makes sure that the     *)
(* Member role is there.                                                   *)
Restart(s) ==
  /\ cache' = [cache EXCEPT ![s] = NoEntry]
  /\ request' = [c \in RoleCalls |->
                   IF request[c].at = s
                     THEN [pc |-> "idle", at |-> s, row |-> NoEntry, grants |-> DefaultGrants]
                     ELSE request[c]]
  /\ \/ rev > 0 /\ UNCHANGED <<rev, grants, reborn>>
     \/ rev = 0 /\ rev' = 1 /\ grants' = DefaultGrants /\ reborn' = TRUE

GrantsNext ==
  \/ \E c \in RoleCalls : \/ FindRole(c) \/ Resolve(c) \/ AnswerGuarded(c)
                          \/ UpdateRole(c) \/ WriteRole(c)
                          \/ RemoveRole(c) \/ EraseRole(c)
  \/ \E s \in Processes : Restart(s)

GrantsSpec == GrantsInit /\ [][GrantsNext]_grantsVars
-----------------------------------------------------------------------------
(* Properties. *)

(* What a request is granted is what the row said when the request read    *)
(* it, however many processes update, invalidate and fill their caches at  *)
(* the same time, and whichever invalidation is lost.  A role that was     *)
(* deleted and seeded again counts its revisions anew, and is excepted:    *)
(* the code then grants what another process kept of its former life.      *)
GrantsCurrent ==
  ~reborn => \A c \in RoleCalls : request[c].pc = "granted" => request[c].grants = request[c].row.grants
=============================================================================
