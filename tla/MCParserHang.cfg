\* The recovery at the top level, without the exception for a stray "}".
CONSTANTS
    Vocabularies <- JustBlocks
    MaxLeaks = 1
    MaxDepth = 1
    MaxSkipTokens = 2
SPECIFICATION Spec
PROPERTY RecoveryMakesProgress
CHECK_DEADLOCK FALSE
