SPECIFICATION MSpec
CONSTANTS
  Word <- TwoWords
  Depth = 2
  MaxTime = 1
  MtvecMode = 1
INVARIANTS
  LaunchExclusive ArithmeticExact HartsSound FetchHonest 
PROPERTIES QueueSpec
CHECK_DEADLOCK FALSE
