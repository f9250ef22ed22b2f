\* Two requests at a time on one group, nothing else going wrong.
CONSTANTS
  Group = {g1}
  Nic = {n1}
  Name = {x, y}
  Content = {a}
  DefaultRules = {}
  Request = {r1, r2}
  MaxTries = 2
  Quota = 1
  Operation = {"create", "update", "delete", "create_server", "delete_server"}
  Fault = {}
  None = None
SPECIFICATION FairSpec
INVARIANT GroupsInv
INVARIANT LinkedGroupIsLive
INVARIANT DeletedGroupIsGone
PROPERTY LoneUpdateIsDone
PROPERTY RequestsEnd
CHECK_DEADLOCK FALSE
