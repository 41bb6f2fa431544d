\* Users that always eventually deregister; add_active_user is never refused.
CONSTANTS
  u1 = u1
  u2 = u2
  c1 = c1
  c2 = c2
  NoThread = NoThread
  Users <- MCUsers
  Controllers <- MCControllers
  NumThreads = 2
  Strategy = "single"
SPECIFICATION DrainSpec
PROPERTY ShutdownEventuallyReturns
