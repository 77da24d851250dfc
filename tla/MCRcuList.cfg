SPECIFICATION Spec
CONSTANTS
    t1 = t1
    t2 = t2
    t3 = t3
    Threads <- MCThreads
    Nodes = {n1, n2, n3}
    head_ = head_
    Null = Null
    Plans <- MCPlans
SYMMETRY NodeSymmetry
INVARIANTS WalksStayValid PopExact Accounting
