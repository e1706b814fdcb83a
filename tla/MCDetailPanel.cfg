SPECIFICATION Spec
CONSTANTS
    Packet <- MCPacket
    NoPacket = NoPacket
    Heights <- MCHeights
    MaxScroll = 8
INVARIANTS
    TypeOK
PROPERTIES
    NoBlankBelow
    EndShowsLastLine
    UpAndDownMoveTheView
