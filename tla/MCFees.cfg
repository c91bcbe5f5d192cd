SPECIFICATION FairSpec
CONSTANTS
  PRECISE_UNIT = 100
  Components <- ThreeComponents
  Reserve = "usdc"
  InitialUnits <- Units
  BaseUnits <- Bases
  Price <- Prices
  ONE_YEAR_IN_SECONDS = 2
  StreamingFees = {0, 20, 30, 40}
  MaxStreamingFee = 30
  ProtocolStreamingFee = 50
  ManagerFee = 10
  ProtocolDirectFee = 5
  ProtocolShare = 50
  Premium = 2
  MinSetTokenSupply = 500
  MAX_POSITION_MULTIPLIER = 300
  Quantities = {900, 9000}
  ReserveQuantities = {3000}
  TradeUnits = {20}
  Received = {500}
  Durations = {1}
  MaxSupply = 30000
  MaxTime = 3
  MaxEvents = 5
INVARIANTS
  TypeOK
  NoPositionVanishes
  DeficitBounded
  FeesWithinOwed
  ReferenceFormulasClose
PROPERTIES
  NoRoundTripProfit
  LockRespected
  LockReleased
CHECK_DEADLOCK FALSE
