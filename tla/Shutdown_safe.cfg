\* A server with up to two connections is shut down at any moment.
SPECIFICATION ProcessFairSpec
CONSTANTS
  MaxConnections = 2
INVARIANTS
  DatabaseOutlivesItsUsers
  CleanExitLeavesNothing
PROPERTIES
  ShutdownEnds
