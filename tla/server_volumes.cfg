\* One request at a time, no failures: a server with its root volume and a data
\* volume attached to it is deleted.
CONSTANTS
  Volume = {v1, v2}
  RootVolume = {v2}
  NoVolume = NoVolume
  Server = {s1}
  NoServer = NoServer
  Request = {r1}
  MaxSize = 1
  MaxPolls = 2
  Operation = {"attach", "delete_server"}
  Faulty = FALSE
SPECIFICATION Spec
INVARIANT DeletedServerHasNoVolumes
\* Primary keys and servers are used up: the system may really stop.
CHECK_DEADLOCK FALSE
