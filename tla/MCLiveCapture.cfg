SPECIFICATION Spec
INVARIANTS
    AtMostOneAfterStop
    NoSilentEnd
    NothingAfterExit
PROPERTIES
    QuitEnds
