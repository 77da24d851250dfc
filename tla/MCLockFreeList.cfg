CONSTANTS
    a = a
    b = b
    Threads <- MCThreads
    Uses <- MCUses
    Nodes = {n1, n2, n3}
    head_ = head_
    Null = Null
SPECIFICATION FairSpec
INVARIANT LiveNodesLinked
PROPERTIES NoResurrection EraseReturns
