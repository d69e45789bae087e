SPECIFICATION Spec
CONSTANTS
    Catalog <- MCCatalog
    BatchRuleListCap = 2
INVARIANTS
    SurfacesAgree
    RatchetTightens
    ArtifactBacksExit
    ExitMeansVerdict
    TextSurvivesEscaping
PROPERTY
    TempIsRemoved
