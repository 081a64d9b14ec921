SPECIFICATION Spec
CONSTANTS
  h1 = h1
  h2 = h2
  c1 = c1
  c2 = c2
  c3 = c3
  k1 = k1
  k2 = k2
  None = None
  Garbled = Garbled
  Host = {h1, h2}
  Primary = h1
  Client = {c1}
  HostOf <- MCHostOf
  Key = {k1, k2}
  Modes = {"s3"}
  SingleWriter = TRUE
  Failing = {"read"}
  MaxFaults = 1
INVARIANT StateSurvives

