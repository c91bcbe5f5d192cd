SPECIFICATION Spec
CONSTANTS
  PRECISE_UNIT = 100
  PRICE_SCALE = 100
  Lltv = 80
  Supply = 130
  ProtocolFee = 0
  Exchanges = {e1, e2}
  e2 = e2
  e1 = e1
  Prices = {65, 100}
  InitialPrices = {65, 100}
  MaxPriceMove = 60
  InterestRate = 1
  PriceImprovement = 1
  Fills = {0}
  InitialCollateral = 10000
  Donations = {}
  MethodologyChoices <- Methodologies
  ExecutionChoices <- Executions
  IncentiveChoices <- Incentives
  ExchangeChoices <- ExchangeSizes
  MaxListings = 1
  InitialAges = {3}
  AgeCap = 3
  MaxEvents = 2
  EtherAmounts = {}
  MaxEther = 0
  RatioTolerance = 1
  OperatorIntervenes = FALSE
  PromptKeeper = FALSE
INVARIANT RipcordAdviceSucceeds
SYMMETRY ExchangeSymmetry
