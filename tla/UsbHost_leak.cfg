\* A keyboard, a mouse and a short circuit come and go.  Two addresses; the clock
\* starts again every 3 units.
CONSTANTS
  USB_NUMDEVICES = 3
  Devices <- PlugDevices
  Class <- PlugClass
  Speed <- PlugSpeed
  Unplugged = Unplugged
  SE1 = SE1
  ClockPeriod = 3
  SettleTime = 1
SPECIFICATION Spec
INVARIANTS TableClearedAfterUnplug
