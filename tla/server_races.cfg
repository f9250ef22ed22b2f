\* One server from its creation to its deletion, two requests at a time, every
\* failure.
CONSTANTS
  Server = {s1}
  NoServer = NoServer
  Request = {r1, r2}
  MaxPolls = 2
  Operation = {"create", "start", "stop", "delete"}
  Fault = {"refusal", "lost_answer", "database", "restart", "nova"}
SPECIFICATION FairSpec
INVARIANT ServersInv
INVARIANT DeletedServerLeavesNoPort
INVARIANT NothingIsOrphaned
INVARIANT QuietRowsAgree
PROPERTY StatusMoves
PROPERTY LoneDeletionLeavesNothing
PROPERTY BuildResolves
\* The server is used up: the system may really stop.
CHECK_DEADLOCK FALSE
