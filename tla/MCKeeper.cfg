SPECIFICATION FairSpec
CONSTANTS
  PRECISE_UNIT = 100
  PRICE_SCALE = 100
  Lltv = 80
  Supply = 130
  ProtocolFee = 0
  Exchanges = {e1}
  e1 = e1
  Prices = {60, 70, 80, 90, 100}
  InitialPrices = {100}
  MaxPriceMove = 17
  InterestRate = 1
  PriceImprovement = 1
  Fills = {0}
  InitialCollateral = 10000
  Donations = {}
  MethodologyChoices <- Methodologies
  ExecutionChoices <- Executions
  IncentiveChoices <- Incentives
  ExchangeChoices <- ExchangeSizes
  MaxListings = 1
  InitialAges = {3}
  AgeCap = 3
  MaxEvents = 4
  EtherAmounts = {}
  MaxEther = 0
  RatioTolerance = 1
  OperatorIntervenes = FALSE
  PromptKeeper = TRUE
INVARIANTS NeverLiquidatable
PROPERTIES TwapEnds LeverageReturnsBelowMax
