SPECIFICATION MCSpec
CONSTANTS
    a = a
    b = b
    x1 = x1
    x2 = x2
    Null = Null
    Threads <- MCThreads
    Objects <- MCObjects
    Calls <- MCCalls
    w1 = w1
    w2 = w2
    w3 = w3
    Workers <- MCWorkers
    thread_number <- MCNumbers
    Arenas = 2
    Generations = 2
    BatchSize = 2
    PopCounts = 2
    auto_reclaim_every = 2
    Briefs <- MCBriefs
    Nil = Nil
INVARIANTS CountsExact ShardAccounting
PROPERTY SessionsPin
