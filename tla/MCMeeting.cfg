SPECIFICATION Spec
CONSTANTS
  Servers = {s1, s2}
  Calls = {c1, c2}
  Users = {host, guest}
  Host = host
  Ops = {"join", "guest", "token", "leave", "end", "webhook", "force_end", "bulk_end", "kick"}
  Limits = {0, 1, 2}
  MaxTime = 2
  MaxFaults = 1
SYMMETRY Symmetry
INVARIANTS RowConsistent TimerWithinLimit
PROPERTIES EndedByRight AdmittedWithinLimit OverForGood ImplementsLifecycle
CHECK_DEADLOCK FALSE
