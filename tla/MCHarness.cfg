SPECIFICATION Spec
CONSTANTS
  Files <- SomeFiles
  Calls <- SomeCalls
  MaxFailures = 2
INVARIANTS
  TestsStartClean
  SnapshotsBalanced
