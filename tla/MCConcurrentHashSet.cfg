CONSTANTS
    a = a
    b = b
    k1 = k1
    k2 = k2
    EMPTY = EMPTY
    UNINITIALIZED = UNINITIALIZED
    NoNode = NoNode
    Threads <- MCThreads
    Keys = {k1, k2}
    Nodes <- MCNodes
    Hash <- MCHash
    Shards <- MCShards
    InitialSize = 4
    MaxSize = 16
    Plans <- MCPlans
SPECIFICATION Spec
INVARIANTS AnswersRight MembersExact SealShowsSize Accounting
