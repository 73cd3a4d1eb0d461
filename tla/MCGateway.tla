----------------------------- MODULE MCGateway -----------------------------
(***************************************************************************)
(* The two protocols of the meeting gateway for TLC: the waiting room of   *)
(* those who are not in yet, and the attendance of one who is.  They share *)
(* no variable of the code, so one of them moves in a behaviour and the    *)
(* other stays as it began: their product would say no more.  For the same *)
(* reason their handlers may bear the same names.                          *)
(***************************************************************************)
EXTENDS MCKnock, Attendance, TLC

VARIABLE part     \* the protocol that moves

gatewayVars == <<part, vars, attendanceVars>>

GatewayInit ==
  /\ part \in {"knock", "attendance"}
  /\ Init /\ AttendanceInit
  /\ part = "attendance" \/ ~present

GatewayNext ==
  /\ part' = part
  /\ \/ part = "knock" /\ Next /\ UNCHANGED attendanceVars
     \/ part = "attendance" /\ AttendanceNext /\ UNCHANGED vars

GatewaySpec == GatewayInit /\ [][GatewayNext]_gatewayVars

(* The variables of both protocols hold what they are declared to hold. *)
GatewayTypeOK == TypeOK /\ AttendanceTypeOK

(* A behaviour of the attendance in which two packets or calls were served *)
(* in another order than they were sent need not be followed any further:  *)
(* the mark of it stays, InMeansPresent and EndReachesPages leave those    *)
(* out, and OutMeansLeft is proved for them too.                           *)
InOrder == ~crossed

(* Either the host opens a second page, and the behaviour is followed to   *)
(* the first knock or answer that is lost; or the guest's connects again.  *)
OneMore ==
  \/ conn[h2] = "new"
  \/ conn[h1] # "new" /\ conn[a2] = "new" /\ unheard = {}

(* Neither specification names a handler or a tab. *)
Symmetry == Permutations(Calls) \cup Permutations(Talks) \cup Permutations(Tabs)
=============================================================================
