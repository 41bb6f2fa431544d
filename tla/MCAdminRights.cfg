\* The workers keep taking and releasing rights: the model never stops.
CONSTANTS
  t1 = t1
  t2 = t2
  alice = alice
  bob = bob
  x = x
  gecos = gecos
  empty = empty
  NoThread = NoThread
  Threads <- MCThreads
  Names <- MCNames
  Ids <- MCIds
  Others <- MCOthers
  Empty <- empty
  PasswdFiles <- MCPasswdFiles
  GroupFiles <- MCGroupFiles
  StartIds <- MCStartIds
  Platforms <- MCPlatforms
SPECIFICATION Spec
SYMMETRY MCSymmetry
INVARIANT TypeOK
INVARIANT RightsScoped
