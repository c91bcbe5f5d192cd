SPECIFICATION Spec
CONSTANTS
  PRECISE_UNIT = 10
  IssuanceModules = {dim, late}
  DefaultIssuanceModule = dim
  MLM = mlm
  dim = dim
  late = late
  mlm = mlm
  VIRTUAL_SHARES = 10
  PRICE_SCALE = 10
  Lltv = 8
  InitialMarket <- MCMarket
  InitialUnit = 25
  Prices = {10}
  Quantities = {20}
  TradeUnits = {13}
  Received <- AtOraclePrice
  InterestAmounts = {9}
  Donations = {1}
  ManagerIssueFee = 1
  ManagerRedeemFee = 1
  TradeFee = 0
  TransferBuffer = 1
  ManagerChangesModules = TRUE
  MaxSupply = 50
  MaxEvents = 4
INVARIANTS HooksAreLive
PROPERTIES HoldersKeepBacking
