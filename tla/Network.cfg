SPECIFICATION DSpec
CONSTANTS
  Parts = {"rx", "tx", "frames", "sockets", "chip", "wlan", "bt", "gspi", "gatt", "att", "links"}
  Threads = FALSE
  NBlocks = 3
  MaxWrites = 4
  RxFifoSize = 8
  RtTimeoutSteps = 2
  IflsValues = {4}
  Boards = {"w5500", "w6300"}
  RsBudget = 2
  Chips = {"w5500", "w6300"}
  MaxFd = 3
  RetryBudget = 2
  KeepPeriod = 2
  MaxLinks = 2
  Peers = {p1, p2, p3}
  PrepSize = 2
  Profiles = {{"notify"}, {"long"}}
INVARIANTS
  RingsIntact SocketsHonest ChipHonest TransfersDecoded WlanHonest BluetoothServes GattSound StreamsWhole
CHECK_DEADLOCK FALSE
