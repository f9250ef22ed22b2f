\* A token lives five units; a refresh may take longer than the interval, so that
\* the scheduler skips runs.
CONSTANTS
  Client = {c1}
  Request = {r1}
  NoToken = NoToken
  Lifetime = 5
  Buffer = 1
  Duration = 3
  Interval = 1
  Latency = 2
  MaxTime = 11
  Fault = {"refusal", "no_answer", "misfire", "restart"}
SPECIFICATION Spec
INVARIANT SystemTokenIsAlive
INVARIANT TokenOutlivesRequest
PROPERTY SystemTokenNeverGoesBack
\* The clock ends at its bound.
CHECK_DEADLOCK FALSE
