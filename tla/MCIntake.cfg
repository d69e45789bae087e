CONSTANTS
    Tags <- MCTags
    RootTag = "I"
    Catalog <- MCCatalog
    Reported <- MCFindings
    MaxElementDepth = 3
    MaxElementCount = 4
    MaxEvents = 10
    MaxInserts = 3
SPECIFICATION Spec
INVARIANTS
    PayloadIsRead
    BuiltIsDocument
    InsertionIsNoGuess
    FiresAsOfficial
CHECK_DEADLOCK FALSE
