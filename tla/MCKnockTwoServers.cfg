SPECIFICATION Spec
CONSTANTS
  Servers = {"s1", "s2"}
  h1 = h1  h2 = h2  a1 = a1  a2 = a2
  Sockets = {h1, a1}
  Users = {"host", "ann"}
  Host = "host"
  UserOf <- MCUserOf
  Pages = {h1, a1}
  PageOf <- MCPageOf
  ServerOf <- TwoServers
  Calls = {c1}
PROPERTY AnswerSettles
CHECK_DEADLOCK FALSE
