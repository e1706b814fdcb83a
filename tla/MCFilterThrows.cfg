SPECIFICATION Spec
CONSTANTS
    MaxTokens <- MCMaxTokens
INVARIANTS
    NoExceptions
