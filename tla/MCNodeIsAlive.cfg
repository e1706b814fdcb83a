SPECIFICATION Spec
CONSTANTS
    p1 = p1
    p2 = p2
    Packet = {p1, p2}
    Key <- MCKey
    Filter <- MCFilter
    NoFilter = NoFilter
    MaxPackets = 3
INVARIANTS
    NodeIsAlive
