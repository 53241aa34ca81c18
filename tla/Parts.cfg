\* Keys: three slots in any order, keys for two of the ports, and a key nobody uses.
\* Display: all the lines of the build, on a narrow raster.
\* Alarms: two, on a clock that has wrapped after five ticks.
\* JTAG UART: a call of two characters may find the rings half full, and has to wait.
\* Files: three devices, and descriptors for all of them besides the standard streams.
\* SPI: the shortest and a longer exchange each way.
CONSTANTS
  NumSlots = 3
  Pressable = {82, 80, 44, 5}
  Compact = FALSE
  hpixels = 15
  vlines = 524
  HVisible = 10
  VVisible = 480
  HSyncStart = 12
  HSyncEnd = 14
  VSyncFirst = 490
  VSyncSecond = 491
  Alarms = {a1, a2}
  Ticks = 5
  Longest = 4
  BufLen = 3
  FifoDepth = 2
  Threshold = 1
  Patience = 2
  CharCount = 6
  Counts = {2}
  Devices = {null, jtag, other}
  NullDevice = null
  StdDevice = jtag
  NoDevice = none
  MaxFd = 6
  Requests <- RegisterAccesses
SPECIFICATION Spec
INVARIANTS KeysTypeOK NoGhostKey VgaTypeOK UartTypeOK NothingLostToHost NothingLostFromHost ReaderWillEnable FilesTypeOK OpenIsHeld ExchangeExact
PROPERTIES RoutingSettles NoTearing DisplayKeepsComing FiresOnTime WriteReturns SentToHost LockKeepsOthersOut CommandReturns
CHECK_DEADLOCK FALSE
