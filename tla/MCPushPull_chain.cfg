SPECIFICATION Spec
CONSTANTS
  Value = 20
  Fee = 1
  MinOutput = 2
  Preimage = {}
  NoR = NoR
  A = A
  B = B
  InitAmtA = 20
  CallA = {1}
  CallB = {1}
  PushAmt = {2, 8}
  MaxReconnect = 0
  MaxChainOp = 1
  SaveRace = TRUE
  Timeouts = TRUE
INVARIANTS TypeOK Breakable
CHECK_DEADLOCK FALSE
