------------------------- MODULE KeyQueueRefinement -------------------------
(* The key-only ring implements the bounded FIFO queue, with one value.  A  *)
(* key enters the abstract queue with the store of push() and leaves it     *)
(* with the clearing store of pop(), wherever the indices are then.         *)
EXTENDS KeyQueue, Sequences

Void == "void"

\* The keys of the window, oldest first; the destructor empties it.
KeyItems ==
  IF kalive
  THEN [n \in 1..(End - First) |-> <<kkey[Slot(First + n - 1)], Void>>]
  ELSE <<>>

KeyFifo == INSTANCE FifoQueue WITH
  items <- KeyItems,
  taken <- [t \in Threads |-> <<kret[t], Void>>],
  Values <- {Void},
  NoValue <- Void

\* Every step of the key-only queue is a step of the bounded FIFO queue or
\* leaves it alone: keys leave push() for pop() in order, each exactly once,
\* although a pop may return a key before its push has counted it.
KeyRefinesFifo == KeyFifo!Spec
=============================================================================
