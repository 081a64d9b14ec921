SPECIFICATION FairSpec
CONSTANTS
  t1 = t1
  t2 = t2
  x = x
  y = y
  Blank = Blank
  None = None
  Caller = {t1, t2}
  Name = {x, y}
  Task <- MCTask
  Initial <- MCInitial
  MaxCalls = 1
  MaxFaults = 3
INVARIANTS TypeOK DuplicatesHaveAReason CreatedFlagIsTrue ReportsFitTheirProduct SentMeansFiled
PROPERTIES CallsEnd
CHECK_DEADLOCK FALSE
