\* Two requests at a time under fair scheduling of the coroutines; Cinder and Nova
\* need not finish anything.
CONSTANTS
  Volume = {v1}
  RootVolume = {}
  NoVolume = NoVolume
  Server = {s1}
  NoServer = NoServer
  Request = {r1, r2}
  MaxSize = 2
  MaxPolls = 2
  Operation = {"create", "attach", "detach", "resize", "delete"}
  Faulty = FALSE
SPECIFICATION FairSpec
PROPERTY CreationResolves
PROPERTY RequestsReturn
\* Primary keys and servers are used up: the system may really stop.
CHECK_DEADLOCK FALSE
