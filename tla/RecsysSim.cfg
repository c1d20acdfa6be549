SPECIFICATION FairSpec
CONSTANTS
  e1 = e1
  e2 = e2
  e3 = e3
  Absent = Absent
  Free = Free
  Dummy = Dummy
  None = None
INVARIANTS TypeOK OneHome NeverThrows GradientsCounted
PROPERTIES ImplementsRounds EntriesComeHome
CHECK_DEADLOCK FALSE
