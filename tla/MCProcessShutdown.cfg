CONSTANTS
  w1 = w1
  w2 = w2
  h1 = h1
  d1 = d1
  Dirs <- MCDirs
  NoDir = ""
  NULL = NULL
  MaxDumpCalls = 2
  NoThread = NoThread
  Waiters <- MCWaiters
  CtrlThreads <- MCCtrlThreads
  Platforms = {"posix", "win32"}
  MaxSignals = 1
  TableSize = 4
SPECIFICATION MCSpec
INVARIANT DumpsAsConfigured
INVARIANT DaemonDetached
PROPERTY WaitersReleased
\* Without a signal nothing ever shuts the process down, and once every
\* thread has returned there is nothing left to do.
CHECK_DEADLOCK FALSE
