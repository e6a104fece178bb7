CONSTANTS
  Runtime = {x1, x2}
  Session = {s1, s2}
  Port = {p1, p2}
  BadPort = BadPort
  Request = {q1}
  NoRuntime = NoRuntime
  NoSession = NoSession
  NoPort = NoPort
  MaxRefusals = 1
  MaxExhausted = 1
SPECIFICATION Spec
INVARIANTS PortsExclusive SessionsResolve NothingLeaks
PROPERTY RequestsReturn
CHECK_DEADLOCK FALSE
