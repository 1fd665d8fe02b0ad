\* A phone, the same phone restarted, and one with a mistyped code; datagrams
\* may be lost, delayed and duplicated.
CONSTANTS
  Phones = {"a1", "a2", "w"}
  Code <- MCCode
  Pub <- MCPub
  MaxAttempts = 2
  Duplicates = TRUE
  MaxExchanges = 4
SPECIFICATION Spec
INVARIANT SameKey
CHECK_DEADLOCK FALSE
