CONSTANTS
    h1 = h1
    h2 = h2
    c1 = c1
    c2 = c2
    n1 = n1
    n2 = n2
    NoSlot = NoSlot
    Handles <- MCHandles
    Callers <- MCCallers
    Nodes <- MCNodes
    kGenerations = 2
    MaxLag = 1
    MaxRetires = 2
SPECIFICATION FairSpec
INVARIANTS CountsExact RingShape
PROPERTIES NoReclaimUnderSession Reclaimed
