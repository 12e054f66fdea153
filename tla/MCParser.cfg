\* Every input over one of the vocabularies whose constructs nest a few levels
\* deep.
CONSTANTS
    Vocabularies <- Inputs
    MaxLeaks = 1
    MaxDepth = 1
    MaxSkipTokens = 2
SPECIFICATION MCSpec
INVARIANTS TypeOK ScopesMatch
PROPERTIES ImplementsGrammar StuckOnlyAtStrayBrace
