SPECIFICATION Spec
CONSTANTS
    t1 = t1
    t2 = t2
    t3 = t3
    Threads <- MCThreads
    Nodes = {n1, n2, n3}
    Keys = {1, 2, 3}
    InitialSize = 1
    MaxSize = 4
    Plans <- MCPlans
    EMPTY = EMPTY
    UNINITIALIZED = UNINITIALIZED
    NoNode = NoNode
SYMMETRY NodeSymmetry
INVARIANTS WinningRunExact MembersExact AnswersRight Accounting
CHECK_DEADLOCK FALSE
