\* Two gates at once on one cache directory and one version of the sources, one process
\* killed or one write failed.
SPECIFICATION StillSpec
CONSTANTS
  Gates = {g1, g2}
  LightLegs = {"en"}
  HeavyLegs = {"sb"}
  ShardCount = 2
  Cores = 1
  Gathered <- MCGathered
  Bytes <- MCBytes
  Digest <- MCDigest
  Ours <- MCOurs
  Official <- MCOfficial
  MaxVersion = 1
  MaxFaults = 1
  EditWhileGrading = FALSE
  Overlapping = TRUE
SYMMETRY GateSymmetry
INVARIANTS
  CacheIsMemo
  GateIsHonest
CHECK_DEADLOCK FALSE
