\* Two slots, lapped; three threads, so that two commits or two releases can
\* be out of order.
CONSTANTS
  Threads = {t1, t2, t3}
  Keys = {k1, k2}
  Values = {v1}
  NoKey = NoKey
  NoValue = NoValue
  NoThread = NoThread
  Capacity = 2
  IndexMod = 4
  NTRY = 2
  MaxIndex = 3
SPECIFICATION MCSpec
INVARIANTS RingInv RightAnswers SlotsMatchWindow
PROPERTIES RefinesFifo KeyRefinesFifo Delivered
