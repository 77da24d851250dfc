CONSTANTS
    w1 = w1
    w2 = w2
    r1 = r1
    NoThread = NoThread
    Unset = Unset
    Threads = {w1, w2, r1}
    Casts <- MCCasts
    BlockSize = 2
    MaxSize = 3
SPECIFICATION Spec
SYMMETRY MCSymmetry
INVARIANTS SafeReads AppendsKept
