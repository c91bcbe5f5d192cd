SPECIFICATION Spec
CONSTANTS
  PRECISE_UNIT = 10
  IssuanceModules = {dim}
  DefaultIssuanceModule = dim
  MLM = mlm
  dim = dim
  mlm = mlm
  VIRTUAL_SHARES = 10
  PRICE_SCALE = 10
  Lltv = 8
  InitialMarket <- MCMarket
  InitialUnit = 25
  Prices = {8, 10}
  Quantities = {7, 20}
  TradeUnits = {9, 13}
  Received <- AroundOraclePrice
  InterestAmounts = {9}
  Donations = {1}
  ManagerIssueFee = 1
  ManagerRedeemFee = 1
  TradeFee = 0
  TransferBuffer = 0
  ManagerChangesModules = FALSE
  MaxSupply = 50
  MaxEvents = 5
INVARIANTS TypeOK DefaultPositionsBacked HoldersCanRedeem
PROPERTIES HoldersKeepBacking
