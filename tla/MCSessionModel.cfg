SPECIFICATION Spec
CONSTANTS
    p1 = p1
    p2 = p2
    p3 = p3
    Packet = {p1, p2, p3}
    Key <- MCKey
    Filter <- MCFilter
    NoFilter = NoFilter
    Expr <- MCExpr
    Parse <- MCParse
    Malformed = Malformed
    NoExpr = NoExpr
    EmptyTree = EmptyTree
    MaxPackets = 3
INVARIANTS
    TypeOK
    ViewExact
    TreeIsTheSelected
    ViewInOrder
    RowsMatchHeader
PROPERTIES
    ExportIsFaithful
    ImplementsTable
