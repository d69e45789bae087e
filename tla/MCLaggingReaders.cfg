\* Pages of two records and walks of two hops over a registry that grows to three digests while
\* a command reads it; in half of the behaviours every call may be answered by a node behind.
CONSTANTS
  Addr = {a1}
  ContentHash = {h1, h2, h3}
  Salt = {s1}
  ZeroAddress = ZeroAddress
  ZeroHash = ZeroHash
  MaxBlock = 3
  MaxTick = 1
  PageSize = 2
  MaxDepth = 2
SPECIFICATION EndpointSpec
SYMMETRY Symmetry
CHECK_DEADLOCK FALSE
INVARIANTS
  SyncedIsExact
  LaggingIsSound
