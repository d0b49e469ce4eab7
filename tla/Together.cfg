SPECIFICATION TSpec
CONSTANTS
  Procs = {1, 2, 3}
  Free = 0
  HostCpus = 2
  MaxInstances = 2
  Word = {0, 1, 2, 3, 4}
  Depth = 3
  Prompt = TRUE
  Relaunches = 2
  Lockers = {0, 1}
  Kinds = {"ldrex", "sio", "boot", "amo", "lrsc"}
  Lock = "lock"
  Others = {"other"}
  TryLock = FALSE
  MaxIrqs = 2
INVARIANTS NoGhosts NobodyForgotten LaunchAgrees MutualExclusion
PROPERTIES OperationsEnd LaunchesComplete LocksKeepBeingTaken
CHECK_DEADLOCK FALSE
