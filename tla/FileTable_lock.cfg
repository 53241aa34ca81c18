\* Besides the standard streams there is room for three descriptors.
CONSTANTS
  Devices = {null, jtag, other}
  NullDevice = null
  StdDevice = jtag
  NoDevice = none
  MaxFd = 6
SPECIFICATION FilesSpec
INVARIANTS LockedAlone
CHECK_DEADLOCK FALSE
