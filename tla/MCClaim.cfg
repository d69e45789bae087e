\* One salt, two crashes, reveals that wait for their window or do not; other accounts copy
\* what they can read; processes, miners and a retrying user are fair.
CONSTANTS
  Addr = {User, Other}
  ContentHash = {Digest, Pred}
  Salt = {s1}
  ZeroAddress = ZeroAddress
  ZeroHash = ZeroHash
  MaxBlock = 5
  MaxTick = 1
  User = User
  Other = Other
  Digest = Digest
  Predecessor = Pred
  Commands = {"commit", "reveal", "claim"}
  NoWait = {TRUE, FALSE}
  MaxCrash = 2
  None = None
  Partial = Partial
SPECIFICATION UserSpec
CHECK_DEADLOCK FALSE
INVARIANTS
  ReceiptServes
  SplitKeepsEdge
  CopierWindow
PROPERTIES
  ReceiptLeadsToRecord
