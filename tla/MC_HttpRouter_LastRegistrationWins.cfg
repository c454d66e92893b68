\* Checks LastRegistrationWins, which the code is expected to violate.
\* Router registration: three registerHandler calls over paths of up to two
\* segments; searches reach three segments.
CONSTANTS
  dd = dd
  h1 = h1
  h2 = h2
  null = null
  Segments <- MC_Segments
  DotDot = dd
  Handlers <- MC_Handlers
  NoHandler = null
  MaxSegments = 2
  MaxInserts = 4

SYMMETRY HandlerSymmetry
SPECIFICATION Spec
INVARIANT LastRegistrationWins
CHECK_DEADLOCK FALSE
