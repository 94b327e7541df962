SPECIFICATION Spec
CONSTANTS
    roleSessionNameMaxSize = 8
    roleARNSuffixSize = 1
    MaxParts = 3
    MaxLength = 3
INVARIANTS
    NeverPanics
CHECK_DEADLOCK FALSE
