\* add_active_user reads m_is_running without the mutex: a shutdown can
\* complete between that read and the increment.
CONSTANTS
  u1 = u1
  u2 = u2
  c1 = c1
  c2 = c2
  NoThread = NoThread
  Users <- MCUsers
  Controllers <- MCControllers
  NumThreads = 2
  Strategy = "single"
SPECIFICATION Spec
INVARIANT RegisteredUserHasScheduler
