CONSTANTS
    a = a
    b = b
    x1 = x1
    x2 = x2
    Null = Null
    Threads <- MCThreads
    Objects <- MCObjects
    Plans <- MCPlans
    MaxStores = 3
SPECIFICATION Spec
SYMMETRY MCSymmetry
INVARIANTS ProtectedAccess CountsExact JudgedExclusive
PROPERTY RetriesAdvance
