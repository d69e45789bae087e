\* One gate after the other, an edit of the sources between them, one fault; one edit, one
\* generator run and possibly its death.
SPECIFICATION ReleaseSpec
CONSTANTS
  Gates = {"g1", "g2"}
  LightLegs = {"en"}
  HeavyLegs = {"sb"}
  ShardCount = 2
  Cores = 1
  Gathered <- MCGathered
  Bytes <- MCBytes
  Digest <- MCDigest
  Ours <- MCOurs
  Official <- MCOfficial
  MaxVersion = 2
  MaxFaults = 1
  EditWhileGrading = FALSE
  Overlapping = FALSE
  SiteBase = "prod"
  SiteCommittedBase = "prod"
  SiteCommitted <- MCCommitted
  SiteStale <- MCStale
  SitePages <- MCPages
  SiteRulePages <- MCRulePages
  SiteEngine <- MCEngine
  SiteSitemapSample = 2
  SiteRobotsSample = 1
  SiteMaxStale = 2
  SiteMaxCopies = 1
  RuleFamily <- MCFamily
  RuleCanonical <- MCCanonical
  RuleCiiOnly = {"BR-TMP-3"}
  RuleTokens <- MCTokens
  Revisions <- MCRevisions
  Releases <- MCReleased
  MaxEdits = 1
  MaxRuns = 1
  MaxKills = 1
INVARIANTS
  VerdictIsAboutTheSite
  MemoOverVersions
  PassingMeansTrue
  RebuildsUnlessStuck
PROPERTIES
  VerdictsAreKept
  EveryCheckEnds
CHECK_DEADLOCK FALSE
