SPECIFICATION Spec
CONSTANTS
  h1 = h1
  h2 = h2
  c1 = c1
  c2 = c2
  c3 = c3
  k1 = k1
  None = None
  Garbled = Garbled
  Host = {h1, h2}
  Primary = h1
  Client = {c1, c2, c3}
  HostOf <- MCHostOf
  Key = {k1}
  Modes = {"s3", "local", "firstsync"}
  SingleWriter = TRUE
  Failing = {"read", "write", "disk", "restart"}
  MaxFaults = 2
INVARIANTS TypeOK S3KeepsAcknowledged LoadsSeeAcknowledged FileKeepsAcknowledged
PROPERTIES S3ChangesOneRecord ImplementsAtomicStore

SYMMETRY Alike
