SPECIFICATION FairSpec
CONSTANTS
  Threads <- TwoThreads
  Free = 0
  InitialCores <- OneCore
  MaxReboots = 0
  SlowBoot = TRUE
PROPERTIES StopCompletes CoreProgress RebootHappens
