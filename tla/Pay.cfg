SPECIFICATION PSpec
CONSTANTS
  N = 3
  Amt = {3, 4}
  Capacity <- MCCapacity
  DefaultLockTime = 2
  Leeway = 0
  Slack = 0
  Skew = 1
  Wrap = 64
  Faulty = {2}
  Breakable = {1}
  MaxPay = 1
  MaxHeight = 6
  MaxCrash = 1
  MaxBreak = 1
INVARIANTS HopNeverLoses SuccessMeansPaid
PROPERTIES HtlcsResolve

