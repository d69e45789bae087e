SPECIFICATION Spec
CONSTANTS
  Topics = {"totals", "categories", "shapes", "german", "peppol", "catalog"}
  Starts <- StartsOf
  Edits <- EditsOf
  Profiles <- ProfilesOf
  MaxEdits <- MaxEditsOf
INVARIANTS AcceptedAddsUp
PROPERTIES OneCentIsCaught VerdictIsIndependent LayersHold CatalogBites
CHECK_DEADLOCK FALSE
