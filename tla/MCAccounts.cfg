SPECIFICATION Spec
CONSTANTS
  Tokens = {x1, x2, x3}
  NoToken = NoToken
  AuthCalls = {c1, c2}
  Grants = {g0, g1}
  DefaultGrants = g0
  Processes = {p1, p2}
  RoleCalls = {c1, c2}
  MaxRev = 3
  Admins = {a1, a2}
  Roles = {super, member, custom}
  Super = super
  Member = member
  NoAdmin = NoAdmin
  NoRole = NoRole
  NoInvite = NoInvite
  AdminCalls = {c1, c2}
  Files = {x1, x2, x3}
  NoFile = NoFile
  FileCalls = {c1, c2}
SYMMETRY Symmetry
INVARIANTS NamedFileStored GrantsCurrent
PROPERTIES SignedOutForGood PasswordChangeRevokes LastSuperKept
CHECK_DEADLOCK FALSE
