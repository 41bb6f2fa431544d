CONSTANTS
  w1 = w1
  w2 = w2
  h1 = h1
  d1 = d1
  Dirs <- MCDirs
  NoDir = ""
  NULL = NULL
  MaxDumpCalls = 2
  NoThread = NoThread
  Waiters <- MCWaiters
  CtrlThreads <- MCCtrlThreads
  Platforms = {"posix"}
  MaxSignals = 1
  TableSize = 4
SPECIFICATION MCSpec
PROPERTY SignalShutsDown
\* A thread that deadlocks on itself in handle_signal is the behaviour
\* SignalShutsDown reports; it is not a separate error.
CHECK_DEADLOCK FALSE
