\* Two requests at a time on one volume and two servers, with lost answers and restarts.
CONSTANTS
  Volume = {v1}
  RootVolume = {}
  NoVolume = NoVolume
  Server = {s1, s2}
  NoServer = NoServer
  Request = {r1, r2}
  MaxSize = 1
  MaxPolls = 1
  Operation = {"create", "attach", "detach", "delete", "delete_server"}
  Faulty = TRUE
SPECIFICATION Spec
INVARIANT IndInv
INVARIANT DeletedVolumeIsGone
INVARIANT DeletedServerIsGone
INVARIANT AttachmentWasAccepted
PROPERTY SoftDeleteIsFinal
SYMMETRY Symmetry
\* Primary keys and servers are used up: the system may really stop.
CHECK_DEADLOCK FALSE
