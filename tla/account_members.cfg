\* Members and users of one project, two requests at a time, with every fault.
CONSTANTS
  Project = {p1}
  User = {u1, u2}
  Link = {l1, l2, l3}
  Name = {x, y, z}
  Account = {a, b}
  Request = {r1, r2}
  MaxTries = 2
  Fault = {"refusal", "lost_answer", "database"}
  None = None
SPECIFICATION Spec
SYMMETRY Symmetry
INVARIANT IndInv
INVARIANT NamesAgree
INVARIANT RolesHaveRows
INVARIANT IdentitiesHaveRows
INVARIANT DeletedUserIsGone
CHECK_DEADLOCK FALSE
