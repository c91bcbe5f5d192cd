SPECIFICATION Spec
CONSTANTS
  Files <- SomeFiles
  Calls <- SomeCalls
  MaxFailures = 2
INVARIANTS
  EveryArgumentInPlace
