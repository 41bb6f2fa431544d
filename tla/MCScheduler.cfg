\* one_to_one_scheduler: one io_service per worker thread.
CONSTANTS
  u1 = u1
  u2 = u2
  c1 = c1
  c2 = c2
  NoThread = NoThread
  Users <- MCUsers
  Controllers <- MCControllers
  NumThreads = 2
  Strategy = "one_to_one"
SPECIFICATION Spec
INVARIANT TypeOK
INVARIANT JoinersWoken
PROPERTY ShutdownReturns
