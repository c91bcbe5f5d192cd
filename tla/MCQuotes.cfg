SPECIFICATION Spec
CONSTANTS
  weth = weth
  dpi = dpi
  yfi = yfi
  WETH = weth
  Components <- MCComponents
  Unit <- MCUnit
  Tokens = {dpi, yfi}
  InitialPools <- MCPools
  FEE = 97
  FEE_SCALE = 100
  PRECISE_UNIT = 100
  SetAmounts = {111}
  Inputs = {180}
  Slippages = {0, 20}
  SwapAmounts = {100}
  MAX_UINT_256 = 100000
  MaxBalance = 2000
  MaxTrades = 2
  MaxCalls = 2
CHECK_DEADLOCK FALSE
INVARIANTS
  UserProtected
  FreshQuoteBrackets
PROPERTIES
  ResidueUntouched
