SPECIFICATION RegistrySpec
CONSTANTS
  Procs = {1, 2}
  Free = 0
  HostCpus = 2
  MaxInstances = 2
PROPERTIES ChangedLocked
CHECK_DEADLOCK FALSE
