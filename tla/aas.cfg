SPECIFICATION FairSpec
CONSTANTS
  d = d
  m = m
  good = good
  plain = plain
  empty = empty
  bad = bad
  note = note
  p1 = p1
  p2 = p2
  p3 = p3
  p4 = p4
  b1 = b1
  b2 = b2
  b3 = b3
  b4 = b4
  mill = mill
  saw = saw
  Poller = {d, m}
  Daemon = {d}
  Shell = {note, empty, good, bad}
  Shells <- BadLast
  Kind <- MCKind
  Process = {p1, p2, p3, p4}
  Submodel = {b1, b2, b3, b4}
  SubmodelOf <- MCSubmodelOf
  ShellOf <- MCShellOf
  MachineOf <- TwoMachines
  Unlabelled = {}
  MaxFaults = 1
  MaxSent = 3
INVARIANTS TypeOK DoneMeansSubmitted ReportsCoverMachines BoundedResubmission
PROPERTY ReadyShellsAreSubmitted
