\* Two floating IPs, two servers with a port each, two requests at a time and
\* every failure.
CONSTANTS
  Ip = {i1, i2}
  Nic = {n1, n2}
  None = None
  Request = {r1, r2}
  Operation = {"create", "delete", "attach", "detach", "delete_server"}
  Fault = {"refusal", "lost_answer", "database", "restart"}
SPECIFICATION Spec
SYMMETRY Symmetry
INVARIANT IndInv
INVARIANT DeletedIpIsGone
INVARIANT NoOrphanIp
INVARIANT QuietIpAgrees
\* Floating IPs and ports are used up: the system may really stop.
CHECK_DEADLOCK FALSE
