\* One phone, the right code, and a network that only delays.
CONSTANTS
  Phones = {"a1"}
  Code <- MCCode
  Pub <- MCPub
  MaxAttempts = 2
  Duplicates = FALSE
  MaxExchanges = 2
SPECIFICATION Spec
INVARIANT FailureMeansCode
CHECK_DEADLOCK FALSE
