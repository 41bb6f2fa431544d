CONSTANTS
  t1 = t1
  t2 = t2
  c1 = c1
  c2 = c2
  c3 = c3
  u1 = u1
  p1 = p1
  p2 = p2
  MCEmpty = MCEmpty
  MCNoUser = MCNoUser
  Threads <- MCThreads
  Creds <- MCCreds
  Users <- MCUsers
  Passwords <- MCPasswords
  Empty <- MCEmpty
  NoUser <- MCNoUser
  Decode <- MCDecode
  Authorizations <- MCAuthorizations
  CACHE_EXPIRATION <- MCExpiry
  MaxTime <- MCMaxTime
SYMMETRY MCSymmetry
SPECIFICATION Spec
INVARIANT TypeOK
PROPERTY RevokedExpireFromCache
