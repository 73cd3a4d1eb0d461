SPECIFICATION FairSpec
CONSTANTS
  Servers = {s1, s2}
  Calls = {c1, c2}
  Users = {host, guest}
  Host = host
  Ops = {"join", "end", "token", "webhook", "force_end", "bulk_end"}
  Limits = {1}
  MaxTime = 2
  MaxFaults = 0
INVARIANT LimitWatched
PROPERTIES LimitEnforced EndAnnounced
CHECK_DEADLOCK FALSE
