SPECIFICATION FairSpec
CONSTANTS
  Servers = {"s1"}
  h1 = h1  h2 = h2  a1 = a1  a2 = a2
  Sockets = {h1, a1, a2}
  Users = {"host", "ann"}
  Host = "host"
  UserOf <- MCUserOf
  Pages = {h1, a1}
  PageOf <- MCPageOf
  ServerOf <- OneServer
  Calls = {c1, c2}
PROPERTY KnockAnswered
CHECK_DEADLOCK FALSE
