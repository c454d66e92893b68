\* stop() then run() again with a session of the first run still alive.
CONSTANTS
  s1 = s1
  s2 = s2
  h1 = h1
  dd = dd
  null = null
  Sessions <- MC_Sessions
  MaxRequests = 2
  ReadTimeOut = 1
  WriteTimeOut = 1
  CntModulus <- MC_CntModulus
  Verbs = {"get"}
  TargetForms = {"plain", "invalid"}
  Targets <- MC_Targets
  Registrations <- MC_Registrations
  HandlerCalls = {"send", "defer", "drop"}
  Segments <- MC_Segments
  DotDot = dd
  Handlers <- MC_Handlers
  NoHandler = null
  MaxSegments = 1
  MaxRuns = 2

SPECIFICATION Spec
INVARIANT SessionBookkeeping
CHECK_DEADLOCK FALSE
