\* initLog and setLogLevel with any options, in any order.
CONSTANTS
  LogOptions <- MC_LogOptions

SPECIFICATION Spec
INVARIANT InitRejectedOnlyAfterInit
