SPECIFICATION Spec
CONSTANTS
  Users = {u1, u2, u3}
  NoUser = NoUser
  Calls = {c1, c2}
  Ops = {"add", "remove", "leave", "demote", "transfer", "console_delete"}
SYMMETRY Symmetry
PROPERTIES LastAdminKept OneOwnerKept ReturnsAsMember DeletedIsFrozen
CHECK_DEADLOCK FALSE
