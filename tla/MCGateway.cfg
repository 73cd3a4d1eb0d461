SPECIFICATION GatewaySpec
CONSTANTS
  Servers = {"s1"}
  h1 = h1  h2 = h2  a1 = a1  a2 = a2
  Sockets = {h1, h2, a1, a2}
  Users = {"host", "ann"}
  Host = "host"
  UserOf <- MCUserOf
  Pages = {h1, h2, a1}
  PageOf <- MCPageOf
  ServerOf <- OneServer
  Calls = {c1, c2}
  Tabs = {t1, t2}
  NoTab = NoTab
  Talks = {c1, c2}
  MaxUpsets = 1
CONSTRAINTS InOrder OneMore
SYMMETRY Symmetry
INVARIANTS GatewayTypeOK WaitingIsParked HostSeesKnocks InMeansPresent OutMeansLeft EndReachesPages
PROPERTIES AdmittedByHost
CHECK_DEADLOCK FALSE
