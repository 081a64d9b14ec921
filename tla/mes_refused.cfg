SPECIFICATION Spec
CONSTANTS
  w1 = w1
  w2 = w2
  o1 = o1
  m1 = m1
  t1 = t1
  t2 = t2
  None = None
  WO = {w1, w2}
  Op = {o1}
  Mat = {m1}
  Thread = {t1, t2}
  Energy = {0, 1}
  Qty = {1}
  Legacy = {}
  OldBop <- MCOldBop
  MaxRequests = 4
  MaxPosts = 2
INVARIANT RefusedOnlyWithoutIngestion
SYMMETRY Alike
CHECK_DEADLOCK FALSE
