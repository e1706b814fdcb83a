SPECIFICATION Spec
CONSTANTS
    MaxPackets = 2
    Heights <- MCOneHeight
    FileName = {f1}
    NoName = NoName
PROPERTIES
    ArrivalsNoticed
    StatusIsDismissed
