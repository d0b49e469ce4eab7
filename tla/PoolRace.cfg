SPECIFICATION Spec
CONSTANTS
  Threads <- ThreeThreads
  Free = 0
  InitialCores <- OneCore
  MaxReboots = 0
  SlowBoot = FALSE
INVARIANTS OneThreadPerCore
