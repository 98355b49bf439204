SPECIFICATION Spec
CONSTANTS
  Value = 20
  Fee = 1
  MinOutput = 2
  Preimage = {}
  NoR = NoR
  A = A
  B = B
  InitAmtA = 10
  CallA = {1}
  CallB = {1}
  PushAmt = {3, 6, 9}
  MaxReconnect = 1
  MaxChainOp = 0
  SaveRace = FALSE
  Timeouts = TRUE
INVARIANTS RevocationSafety Final Agreement
PROPERTY ImplementsLedger
CHECK_DEADLOCK FALSE
