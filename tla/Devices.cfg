SPECIFICATION DSpec
CONSTANTS
  Parts = {"timers", "counters", "uart", "spi", "image", "flash", "usb", "pio", "dma"}
  Threads = FALSE
  NBlocks = 3
  MaxWrites = 4
  RxFifoSize = 8
  RtTimeoutSteps = 2
  IflsValues = {4}
  Boards = {"w5500", "w6300"}
  RsBudget = 2
  Chips = {"w5500", "w6300"}
  MaxFd = 3
  RetryBudget = 2
  KeepPeriod = 2
  MaxLinks = 2
  Peers = {p1, p2, p3}
  PrepSize = 2
  Profiles = {{"notify"}, {"long"}}
INVARIANTS
  TimeKept DataAnnounced CardHonest ImageSafe FlashHonest UsbHonest PioHonest DmaHonest
CHECK_DEADLOCK FALSE
