SPECIFICATION HSpec
CONSTANTS
  Value = 40
  Fee = 1
  MinOutput = 2
  Preimage = {r1}
  NoR = NoR
  A = A
  B = B
  InitAmtA = 20
  CallA = {1, 2}
  CallB = {1}
  PushAmt = {1}
  OfferAmt = {2, 3}
  Locktime = {1}
  ClearR = {r1, NoR}
  AnyClear = TRUE
  Lag = TRUE
  MaxHeight = 1
  MaxHTLC = 2
  MaxOps = 3
  MaxReconnect = 1
  MaxChainOp = 0
  SaveRace = FALSE
  Timeouts = FALSE
  Above <- MCAbove
INVARIANTS HtlcAgreement RevocationSafety
PROPERTIES ClearedForGood
CHECK_DEADLOCK FALSE
