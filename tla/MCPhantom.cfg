SPECIFICATION Spec
INVARIANTS
    OnlyPacketsAppended
