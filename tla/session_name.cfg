SPECIFICATION Spec
CONSTANTS
    roleSessionNameMaxSize = 8
    roleARNSuffixSize = 1
    MaxParts = 3
    MaxLength = 3
INVARIANTS
    NamesInv
    DiscoveredBaseTakesNames
    SessionNameFits
    LastLevelGetsTheRest
    OtherLevelsKeepAChar
    PanicsOnlyWhenTooDeep
CHECK_DEADLOCK FALSE
