SPECIFICATION Spec
CONSTANTS
  Sockets = {x1, x2}
  Looks = {l1, l2}
  MsgCalls = {c1, c2}
  MaxVer = 3
  MaxNet = 1
  Voters = {v1, v2}
  Options = {o1, o2, o3}
  Ballots = {c1, c2}
  ReadCalls = {c1, c2}
  MaxTime = 3
  Starts <- MCStarts
  Intervals = {1, 2}
  Counts = {0, 1, 3}
  Untils <- MCUntils
  MaxOccurrences = 24
  MaxAttempts = 5
SYMMETRY Symmetry
INVARIANTS RoomsJoined CountedWhileConnected PageSettles OneChoice RemovedComesBack SeriesFollowsRule
PROPERTIES ImplementsAtomicPoll
CHECK_DEADLOCK FALSE
