\* A handler that sends and keeps a copy of the writer, which a
\* second thread sends again.
CONSTANTS
  s1 = s1
  s2 = s2
  h1 = h1
  dd = dd
  null = null
  Sessions <- MC_Sessions
  MaxRequests = 2
  ReadTimeOut = 1
  WriteTimeOut = 1
  CntModulus <- MC_CntModulus
  Verbs = {"get"}
  TargetForms = {"plain", "invalid"}
  Targets <- MC_Targets
  Registrations <- MC_Registrations
  HandlerCalls = {"send_and_keep"}
  Segments <- MC_Segments
  DotDot = dd
  Handlers <- MC_Handlers
  NoHandler = null
  MaxSegments = 1
  MaxRuns = 1

SPECIFICATION Spec
INVARIANT NoConcurrentStreamOps
CHECK_DEADLOCK FALSE
