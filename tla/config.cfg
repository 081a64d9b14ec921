SPECIFICATION Spec
CONSTANTS
  p1 = p1
  t1 = t1
  t2 = t2
  ia = ia
  ib = ib
  sa = sa
  sb = sb
  sc = sc
  u1 = u1
  n1 = n1
  n2 = n2
  f1 = f1
  f9 = f9
  Blank = Blank
  Spaces = Spaces
  None = None
  Absent = Absent
  EnvId = Blank
  EnvSecret = Blank
  Process = {p1}
  Thread = {t1, t2}
  Daemon = {}
  ProcessOf <- MCProcessOf
  Text <- MCText
  Accounts <- MCAccounts
  FactoryOf <- MCFactoryOf
  InitialDoc <- MCInitialDoc
  Body <- MCBody
  DefaultUrl = u1
  Lifetimes = {2, 4}
  Leeway = 1
  MaxAge = 2
  LoadTime = 1
  MaxClock = 2
  MaxRequests = 3
INVARIANTS TypeOK CachedTokensAreLive ReplacedCredentialsDieOut ClearedCachesAreFresh StoredPairWasValidated FactoryFitsName
SYMMETRY Alike
CHECK_DEADLOCK FALSE
