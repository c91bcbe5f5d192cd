SPECIFICATION FairSpec
CONSTANTS
  Addresses <- Strings
  AccountOf <- Accounted
  Lists <- SomeLists
  WordSize = 2
  Amounts = {1, 2}
PROPERTY ImplementsEntitlements
CHECK_DEADLOCK FALSE
