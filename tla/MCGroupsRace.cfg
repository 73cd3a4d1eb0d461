SPECIFICATION Spec
CONSTANTS
  Users = {u1, u2, u3}
  NoUser = NoUser
  Calls = {c1, c2}
  Ops = {"leave", "demote", "promote"}
SYMMETRY Symmetry
PROPERTY StaysGoverned
CHECK_DEADLOCK FALSE
