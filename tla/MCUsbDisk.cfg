SPECIFICATION UsbSpec
CONSTANTS
  Wrap = 3
  Cycles = 4
  MaxFaults = 3
  MaxRequests = 2
INVARIANTS DoneRight InStep LostForAReason
PROPERTY Settles
CHECK_DEADLOCK FALSE
