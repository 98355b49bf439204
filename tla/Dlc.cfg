CONSTANTS
  FeeUnit = 2
  Fundings <- MCFundings
  Ranges <- MCRanges
  Below <- MCBelow
  Above = {}
  Coins <- MCCoins
  Outcomes = {0, 11, 12, 50}
  SharedCoin = "btc"
  OnlyACoin = "vtc"
  MaxAccept = 2
  MaxSettle = 1
  MaxSpend = 1
  MaxDrop = 1
SPECIFICATION DSpec
 
PROPERTIES SettlesAsDrawn DlcCompletes
CHECK_DEADLOCK FALSE
