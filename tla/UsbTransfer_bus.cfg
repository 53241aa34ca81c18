\* The NAK limit is 2 instead of 200; the deadline is 1 of the 3 units of the clock.
CONSTANTS
  USB_NAK_LIMIT = 2
  USB_RETRY_LIMIT = 3
  USB_XFER_TIMEOUT = 1
  ClockPeriod = 3
  Kinds <- BootDevices
  Script <- SetThenGet
  AnswerParts = 2
  Reports = 4
SPECIFICATION Spec
INVARIANTS TypeOK AnswerWhole
PROPERTIES StreamSpec TransferReturns ReportsGetThrough
