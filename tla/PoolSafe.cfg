SPECIFICATION Spec
CONSTANTS
  Threads <- ThreeThreads
  Free = 0
  InitialCores <- OneOrTwoCores
  MaxReboots = 1
  SlowBoot = TRUE
INVARIANTS OneThreadPerCore QuietReboot ThreadsTracked
