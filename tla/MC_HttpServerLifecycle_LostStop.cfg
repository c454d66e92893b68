\* run() with thread_num_ = 1 on one thread, stop() on another.
CONSTANTS
  c1 = c1
  c2 = c2
  Stoppers <- MC_OneStopper
  StopperThread <- MC_OutsidePool
  ThreadNum = 1

SPECIFICATION Spec
PROPERTY StopEndsRun
\* Every thread has returned: the program ends.
CHECK_DEADLOCK FALSE
