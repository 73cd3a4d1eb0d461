SPECIFICATION Spec
CONSTANTS
  Servers = {s1}
  Calls = {c1, c2}
  Users = {host, guest}
  Host = host
  Ops = {"join", "end"}
  Limits = {0}
  MaxTime = 1
  MaxFaults = 0
SYMMETRY Symmetry
PROPERTY OnlyWaitingStarts
CHECK_DEADLOCK FALSE
