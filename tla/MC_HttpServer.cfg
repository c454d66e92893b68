\* Two connections, two requests each, read/write timeouts on, run() called
\* twice (with stop() in between), handlers that answer synchronously,
\* defer to another thread, or drop the writer.
CONSTANTS
  s1 = s1
  s2 = s2
  h1 = h1
  dd = dd
  null = null
  Sessions <- MC_Sessions
  MaxRequests = 2
  ReadTimeOut = 1
  WriteTimeOut = 1
  CntModulus <- MC_CntModulus
  Verbs = {"get"}
  TargetForms = {"plain"}
  Targets <- MC_RoutedTargets
  Registrations <- MC_Registrations
  HandlerCalls = {"send", "defer", "drop"}
  Segments <- MC_Segments
  DotDot = dd
  Handlers <- MC_Handlers
  NoHandler = null
  MaxSegments = 1
  MaxRuns = 2

SPECIFICATION Spec
INVARIANT TypeOK
INVARIANT OneHolderPerLiveSession
PROPERTY ConnectionRefinement
PROPERTY SessionsReleased
\* After the last stop() nothing runs any more: the server really stops.
CHECK_DEADLOCK FALSE
