\* One request at a time, and all that can go wrong with it.
CONSTANTS
  Group = {g1}
  Nic = {n1}
  Name = {x, y}
  Content = {a, b}
  DefaultRules = {a}
  Request = {r1}
  MaxTries = 2
  Quota = 3
  Operation = {"create", "update", "delete", "create_server", "delete_server"}
  Fault = {"refusal", "lost_answer", "database"}
  None = None
SPECIFICATION Spec
PROPERTY LoneFailureIsUndone
SYMMETRY Symmetry
CHECK_DEADLOCK FALSE
