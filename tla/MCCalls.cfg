SPECIFICATION Spec
CONSTANTS
  PRECISE_UNIT = 100
  PRICE_SCALE = 100
  Lltv = 80
  Supply = 130
  ProtocolFee = 1
  Exchanges = {e1, e2}
  e2 = e2
  e1 = e1
  Prices = {70, 85}
  InitialPrices = {85}
  MaxPriceMove = 25
  InterestRate = 1
  PriceImprovement = 1
  Fills = {0}
  InitialCollateral = 10000
  Donations = {10000}
  MethodologyChoices <- Methodologies
  ExecutionChoices <- Executions
  IncentiveChoices <- Incentives
  ExchangeChoices <- TwoExchangeSizes
  MaxListings = 1
  InitialAges = {3}
  AgeCap = 3
  MaxEvents = 2
  EtherAmounts = {1}
  MaxEther = 1
  RatioTolerance = 1
  OperatorIntervenes = TRUE
  PromptKeeper = FALSE
INVARIANTS TypeOK MorphoAcceptsChunk AdviceCanBeFollowed SizesAsPredicted
PROPERTIES TradesMoveTowardTarget
SYMMETRY ExchangeSymmetry
