\* The instance of MCQueues.cfg, for the claim that the code does not keep.
CONSTANTS
  Threads = {t1, t2, t3}
  Keys = {k1, k2}
  Values = {v1}
  NoKey = NoKey
  NoValue = NoValue
  NoThread = NoThread
  Capacity = 2
  IndexMod = 4
  NTRY = 2
  MaxIndex = 3
SPECIFICATION MCSpec
INVARIANT FullMeansAllTaken
