\* run() with thread_num_ = 3 on one thread; stop() on another thread and
\* from a handler on pool thread 1.
CONSTANTS
  c1 = c1
  c2 = c2
  Stoppers <- MC_TwoStoppers
  StopperThread <- MC_HandlerOnThread1
  ThreadNum = 3

SPECIFICATION Spec
INVARIANT PoolExclusive
\* Every thread has returned: the program ends.
CHECK_DEADLOCK FALSE
