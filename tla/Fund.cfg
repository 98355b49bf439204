SPECIFICATION FundSpec
CONSTANTS
  A = A
  B = B
  Caps = {4, 10}
  Sends = {2, 5, 6}
  MinChanCapacity = 8
  MinOutput = 2
  FundFee = 3
  Fee = 1
  DualAmt = 5
  Funders = {A, B}
  DualFunders = {B}
  MaxFund = 2
  MaxBreak = 1
INVARIANTS FundedRefundable FundAgreement
PROPERTIES FundCompletes
CHECK_DEADLOCK FALSE
