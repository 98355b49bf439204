CONSTANTS
  Me = Me
  Other = Other
  Payments <- MCPayments
  StartHeight = 1
  MaxSend = 1
  MaxBlock = 4
  MaxReorg = 1
  MaxRestart = 1
  QueueSize = 2
SPECIFICATION SSpec
INVARIANTS NoPhantom Balanced SendsAccepted
PROPERTY ReturnsToWait
CHECK_DEADLOCK FALSE
