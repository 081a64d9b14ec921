SPECIFICATION Spec
CONSTANTS
  h1 = h1
  h2 = h2
  c1 = c1
  c2 = c2
  c3 = c3
  b = b
  bs = bs
  bm = bm
  m = m
  k = k
  e = e
  g = g
  gU = gU
  nm = nm
  v = v
  vs = vs
  w = w
  x1 = x1
  x2 = x2
  idleId = idleId
  Blank = Blank
  None = None
  Torn = Torn
  BuildingIdle = idleId
  Host = {h1, h2}
  Client = {c1, c2, c3}
  HostOf <- MCHostOf
  Text <- MCText
  Trim <- MCTrim
  Lower <- MCLower
  Bucket = TRUE
  Row <- MCRow
  Places <- MCPlaces
  Join <- MCJoin
  WorkOrder = {v, vs, w}
  Payload <- MCPayload
  InitialDocs <- MCInitialDocs
  MaxOthers = 1
  MaxFaults = 1
INVARIANTS TypeOK RowsAreWholeMerges FileIsWhatWasAcknowledged ObjectFollowsTheOnlyWriter IdleIsNotOverallocated SharesReachTheReport
SYMMETRY Alike
CHECK_DEADLOCK FALSE
