CONSTANTS
    Frame <- MCFrame
    OffsetSpan = 128
    Nibble <- MCNibble
    Byte <- MCByte
    Word <- MCWord
    Line <- MCLine
    MaxTags = 2
SPECIFICATION Spec
INVARIANTS TypeOK ReadsInside OffsetIsPlace FieldsDescribeBytes LayersAreFilled
    SummaryMatchesLayers AcceptedIsCarried TransportIsFound
PROPERTIES EveryStepCounts
