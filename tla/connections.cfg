SPECIFICATION MCSpec
CONSTANTS
    p1 = p1
    p2 = p2
    p3 = p3
    r1 = r1
    r2 = r2
    r3 = r3
    Remote = {r1, r2, r3}
    Seeders = {}
    Downloaders = 1
    OptUnchokedPeers = 1
    OptInterval = 2
    Fickle = {r1}
    Rated = {r2}
    MaxRate = 1
    Peer = {p1, p2, p3}
    MinNumConnections = 0
    MaxNumConnections = 3
    Overlays <- MCOverlays
    bb = bb
    g1 = g1
    g2 = g2
    a1 = a1
    a2 = a2
    a3 = a3
    a4 = a4
    Backbone = bb
    Gateways = {g1, g2}
    AccessNode <- MCAccessNode
    Up <- MCUp
    Drawn <- MCDrawn
    Byte = 5
    Underlays <- MCUnderlays
    MaxNodes = 5
    MaxOffset = 3
INVARIANTS
    ConnectionsTracked
    OneConnectionPerPair
    
PROPERTIES
    ClosedConnectionsEnd
    FastestAreServed
    EveryoneHasATurn
CHECK_DEADLOCK FALSE
