SPECIFICATION KeeperSpec
CONSTANTS
  PRECISE_UNIT = 100
  PRICE_SCALE = 100
  Lltv = 80
  Supply = 130
  ProtocolFee = 0
  Exchanges = {e1, e2}
  e2 = e2
  e1 = e1
  Prices = {75, 100}
  InitialPrices = {100}
  MaxPriceMove = 35
  InterestRate = 0
  PriceImprovement = 1
  Fills = {0}
  InitialCollateral = 10000
  Donations = {}
  MethodologyChoices <- ManyMethodologies
  ExecutionChoices <- ShortCooldown
  IncentiveChoices <- Incentives
  ExchangeChoices <- ManyExchangeSizes
  MaxListings = 2
  InitialAges <- TwoInitialAges
  AgeCap = 2
  MaxEvents = 2
  EtherAmounts = {}
  MaxEther = 0
  RatioTolerance = 1
  OperatorIntervenes = TRUE
  PromptKeeper = FALSE
  LeverageSettingsChoices <- ManyLeverageSettings
INVARIANTS TwapTargetWithinBounds GlobalIsLatestTrade ListingsCounted 
PROPERTIES TwapTargetFixed 
SYMMETRY ExchangeSymmetry
