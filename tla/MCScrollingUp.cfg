SPECIFICATION Spec
CONSTANTS
    MaxPackets = 3
    Heights <- MCOneHeight
    FileName = {f1}
    NoName = NoName
PROPERTIES
    ScrollingUpPauses
