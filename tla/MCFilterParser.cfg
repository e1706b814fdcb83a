SPECIFICATION Spec
CONSTANTS
    MaxTokens <- MCMaxTokens
INVARIANTS
    StaysInside
    ReturnsWhatIsDerived
    LeftToRight
    AcceptsGrammar
PROPERTIES
    EveryStepCounts
