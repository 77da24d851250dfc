CONSTANTS
    t1 = t1
    t2 = t2
    t3 = t3
    r1 = r1
    r2 = r2
    w1 = w1
    w2 = w2
    NoWriter = NoWriter
    NoCaller = NoCaller
    Threads <- MCThreads
    Burst = 2
    Rounds = 1
    Readers <- MCReaders
    Writers <- MCWriters
    MaxWrites = 2
    Callers <- MCCallers
    Values <- MCValues
    InitialValue = 0
    MaxCalls = 2
SPECIFICATION FairSpec
INVARIANTS MutualExclusion ValidatedGeneration IsMaximum
PROPERTY Progress
