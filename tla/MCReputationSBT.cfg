\* Two accounts claim and anchor two digests, commit, re-commit and reveal; points are minted
\* one by one or in batches of two.
CONSTANTS
  Addr = {a1, a2}
  ContentHash = {h1, h2}
  Salt = {s1}
  ZeroAddress = ZeroAddress
  ZeroHash = ZeroHash
  MaxBlock = 3
  MaxTick = 1
  MinPoints = 2
  Ref = {r1}
  MaxBatch = 2
SPECIFICATION SBTSpec
SYMMETRY Symmetry
CHECK_DEADLOCK FALSE
INVARIANTS
  AuthorBoundCommitted
  LedgerIsExact
  PointsAudited
  PointsAreBacked
PROPERTIES
  OpenedByBoundAccount
  ImplementsLedger
