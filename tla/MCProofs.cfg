\* Three files with two contents, one edit at any moment, two anchored roots, one changed field.
CONSTANTS
  Path = {1, 2, 3}
  Content = {1, 2}
  LeafValue <- ContentMajor
  MaxEdits = 1
  MaxAnchored = 2
  MaxTamper = 1
  None = None
  SealInside <- MCInside
  SealBelow = {"y"}
  Sealed = {"a", "b"}
  SealLinkable = {"a", "x"}
  SealLinkTo = {"b", "out"}
  SealContent = {1, 2}
  SealLeafValue <- MCLeafValue
  SealRelPaths <- MCRelPaths
  SealArgvs <- AllArgvs
  SealTamper = 1
  SealEdits = 1
  SealBases = {"real"}
SPECIFICATION ProofsSpec
CHECK_DEADLOCK FALSE
INVARIANTS
  AcceptedIsAnchored
  AcceptedIsGenuine
  GenuineAccepted
  ExactDirClosed
  SignerIsRecovered
