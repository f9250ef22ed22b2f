\* Two requests at a time about different volumes and servers, among a data volume
\* and a root volume, with lost answers and restarts.
CONSTANTS
  Volume = {v1, v2}
  RootVolume = {v2}
  NoVolume = NoVolume
  Server = {s1, s2}
  NoServer = NoServer
  Request = {r1, r2}
  MaxSize = 2
  MaxPolls = 2
  Operation = {"create", "attach", "detach", "resize", "delete", "delete_server"}
  Faulty = TRUE
SPECIFICATION SpecApart
INVARIANT InUseHasServer
INVARIANT DeletedServerKeepsAtMostHalf
INVARIANT LiveServerHasLiveVolumes
PROPERTY ResizeIsReal
SYMMETRY Symmetry
\* Primary keys and servers are used up: the system may really stop.
CHECK_DEADLOCK FALSE
