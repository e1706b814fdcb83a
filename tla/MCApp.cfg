SPECIFICATION Spec
CONSTANTS
    MaxPackets = 3
    Heights <- MCTwoHeights
    FileName = {f1}
    NoName = NoName
INVARIANTS
    TypeOK
    UnseenOnlyWhenReviewing
    StatusIsTrue
PROPERTIES
    SelectionOnScreen
    PlaceIsKept
    OverwriteIsConfirmed
