SPECIFICATION Spec
CONSTANTS
  d = d
  m = m
  good = good
  plain = plain
  empty = empty
  bad = bad
  note = note
  p1 = p1
  p2 = p2
  p3 = p3
  p4 = p4
  b1 = b1
  b2 = b2
  b3 = b3
  b4 = b4
  mill = mill
  saw = saw
  Kind <- MCKind
  Submodel = {b1, b2, b3}
  SubmodelOf <- MCSubmodelOf
  ShellOf <- MCShellOf
  MaxSent = 2
  Poller = {d}
  Daemon = {d}
  Shell = {good, plain}
  Shells <- Labels
  Process = {p1, p2, p3}
  MachineOf <- OneMachine
  Unlabelled = {}
  MaxFaults = 0
INVARIANT SubmittedWhenAllEnded
