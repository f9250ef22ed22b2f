\* One request, no failures: the two sessions of a detach.
CONSTANTS
  Volume = {v1}
  RootVolume = {}
  NoVolume = NoVolume
  Server = {s1}
  NoServer = NoServer
  Request = {r1}
  MaxSize = 2
  MaxPolls = 2
  Operation = {"create", "attach", "detach", "resize", "delete", "delete_server"}
  Faulty = FALSE
SPECIFICATION Spec
PROPERTY DetachEndsAvailable
\* Primary keys and servers are used up: the system may really stop.
CHECK_DEADLOCK FALSE
