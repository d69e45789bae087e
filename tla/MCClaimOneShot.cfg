\* The one-shot vh claim with --parent and --receipt, one crash, and vh reveal to resume it.
CONSTANTS
  Addr = {User, Other}
  ContentHash = {Digest, Pred}
  Salt = {s1}
  ZeroAddress = ZeroAddress
  ZeroHash = ZeroHash
  MaxBlock = 5
  MaxTick = 1
  User = User
  Other = Other
  Digest = Digest
  Predecessor = Pred
  Commands = {"reveal", "claim"}
  NoWait = {FALSE}
  MaxCrash = 1
  None = None
  Partial = Partial
SPECIFICATION CliSpec
CHECK_DEADLOCK FALSE
INVARIANT EdgeKept
