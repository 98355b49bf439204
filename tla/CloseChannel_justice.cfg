SPECIFICATION CSpec
CONSTANTS
  Value = 20
  Fee = 1
  MinOutput = 2
  Preimage = {}
  NoR = NoR
  A = A
  B = B
  InitAmtA = 10
  CallA = {1, 2}
  CallB = {}
  PushAmt = {2}
  MaxReconnect = 1
  MaxChainOp = 1
  SaveRace = FALSE
  Timeouts = FALSE
  Closers = {B}
  Breakers = {A}
INVARIANT CollectsRefund
CHECK_DEADLOCK FALSE
