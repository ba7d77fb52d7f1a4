SPECIFICATION Spec
CONSTANTS
  None = None
  c1 = c1
  Calls = {c1, c2, c3}
  Requests <- MCRequests
  Environments <- MCEnvironments
  Lifetimes <- MCLifetimes
  Skew = 1
  Timeout = 1
  ChunkMax = 4
  MaxBlocks = 2
  MaxTime = 2
  MaxTokens = 2
INVARIANTS NoStaleToken DeliveredWhole
PROPERTIES NewestServed CallsEnd
CHECK_DEADLOCK FALSE
