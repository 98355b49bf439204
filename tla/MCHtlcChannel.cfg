SPECIFICATION HFairSpec
CONSTANTS
  Value = 40
  Fee = 1
  MinOutput = 2
  Preimage = {r1}
  NoR = NoR
  A = A
  B = B
  InitAmtA = 20
  CallA = {1, 2}
  CallB = {1}
  PushAmt = {1}
  OfferAmt = {3}
  Locktime = {1}
  ClearR = {r1}
  AnyClear = FALSE
  Lag = FALSE
  MaxHeight = 0
  MaxHTLC = 2
  MaxOps = 3
  MaxReconnect = 0
  MaxChainOp = 0
  SaveRace = FALSE
  Timeouts = FALSE
  Above <- MCAbove
INVARIANTS NeverFails NeverStuck HtlcPaidOnce
PROPERTIES HtlcCompletes
CHECK_DEADLOCK FALSE
